---------------------------- MODULE Spec2Model ----------------------------
(***************************************************************************)
(* Render scheduling of Map (src/unnamed/part_009, class Map): the dirty   *)
(* flags, the single pending animation frame, the render tick _render and  *)
(* the operations that reach them (_update, _rerender, setStyle, remove,   *)
(* context lost / restored, the repaint setter, CanvasSource.play).        *)
(*                                                                         *)
(* A render tick is one run of _render.  It calls out to collaborators and *)
(* listeners (frame tasks, style.update, style._updateSources,             *)
(* style._updatePlacement, painter.render, 'render' and 'load' listeners); *)
(* pc is the call site the tick has reached and inCall says that the call  *)
(* made there has not returned yet.  While inCall is TRUE the callee may   *)
(* call back into the map (re-entrancy); between call sites nothing else   *)
(* runs, JavaScript being single-threaded.                                 *)
(***************************************************************************)
EXTENDS Integers, Sequences, FiniteSets

\* ------------------------------------------------------------------ bounds
MaxTaskId == 1      \* frame tasks ever added by _requestRenderFrame
MaxBurst == 2       \* the burst counters saturate here
MaxLoadCount == 2   \* the count of load events saturates here
FactorDen == 1      \* cross-fading factors are k / FactorDen, k in 0..FactorDen

Factors == 0..FactorDen
FactorOne == FactorDen

Min(a, b) == IF a < b THEN a ELSE b

VARIABLES
    \* ---- Map fields
    style,              \* this.style: 0 when absent, 1 when a Style is installed
    _styleDirty,
    _sourcesDirty,
    _placementDirty,
    _repaint,
    _loaded,
    _frame,             \* this._frame: 0 when null, else the handle
    _crossFadingFactor,
    \* ---- _renderTaskQueue
    queue,              \* tasks waiting for the next run, in insertion order
    running,            \* rest of the snapshot that run() is executing
    taskId,             \* last id handed out
    \* ---- collaborators
    styleLoaded,        \* what style.loaded() answers
    contextIsLost,      \* the WebGL context is lost and not yet restored
    platformFrames,     \* handles browser.frame owes a callback
    \* ---- position of the render tick
    pc,
    inCall,
    crossFading,        \* _render's local
    \* ---- history
    op,                 \* the operation that made the last step
    emitted,            \* events fired by the last step, in order
    removed,            \* remove() has run
    tickLog,            \* calls the current tick has made, in order
    loadCount,          \* load events fired so far
    burstCalls,         \* _update calls in a row that began with no frame
    burstStyle,         \* one of them passed updateStyle = true
    burstStyle0,        \* _styleDirty before the first of them
    burstFrames,        \* browser.frame calls they made
    reSrc, reStyle,     \* flag raised by _update inside the tick, not yet reconciled
    owedStyle           \* _update(true) was called and style.update has not run since

VARIABLES
    \* ---- layer-scoped listeners (Map.on / Map.off with three arguments)
    regs,               \* _delegatedListeners: the records, in registration order
    subs,               \* Evented's subscriptions, in registration order
    \* ---- history of the last listener operation
    evOp,               \* "on3", "off3", "on2", "off2", "fire" or "none"
    lastReg,            \* the (type, layer, listener) of the last on / off
    lastEv,             \* the raw event last fired and its hit-test results
    calls,              \* listener calls the last fire made, in order
    delivered,          \* subscriptions the last fire called
    evFeatures,         \* layer whose features the event object still carries
    evThrew             \* the last fire raised an error to its caller

mapVars == <<style, _styleDirty, _sourcesDirty, _placementDirty, _repaint,
             _loaded, _frame, _crossFadingFactor>>
queueVars == <<queue, running, taskId>>
collabVars == <<styleLoaded, contextIsLost, platformFrames>>
tickVars == <<pc, inCall, crossFading>>
histVars == <<op, emitted, removed, tickLog, loadCount, burstCalls, burstStyle,
              burstStyle0, burstFrames, reSrc, reStyle, owedStyle>>
evVars == <<regs, subs, evOp, lastReg, lastEv, calls, delivered, evFeatures,
            evThrew>>
\* The scheduler's state, and the state its operations leave alone.
\* The Style objects of the map, and what the last setStyle did.
VARIABLES
    styles,        \* the Style objects constructed so far, by identity 1..Len
    styleObj,      \* this.style as an object: 0 (none) or its identity
    setStyleCalls, \* number of setStyle calls made
    ssArgs,        \* arguments of the last setStyle and the style it found
    ssCalls,       \* the calls the last setStyle made, in order
    ssReturn,      \* how the last setStyle ended: "this" or "raised"
    qBy            \* who answered the queries made since the last setStyle

styleVars == <<styles, styleObj, setStyleCalls, ssArgs, ssCalls, ssReturn, qBy>>

\* What the task queue has run.
VARIABLES
    snapshot,      \* the queue as run() found it, for the current or last run
    ranNow,        \* the tasks called in the current or last run, in order
    ranAll,        \* the tasks called in earlier runs
    dropped,       \* tasks of the snapshot removed before their turn
    tqCall         \* the last call made to the queue, with its id

tqVars == <<snapshot, ranNow, ranAll, dropped, tqCall>>
schedVars == <<mapVars, queueVars, collabVars, tickVars, histVars>>

\* The LngLat objects there are.
VARIABLES
    points,        \* the LngLat objects constructed, by identity 1..Len
    geoLast        \* the last LngLat operation: what, on what, how it ended

geoVars == <<points, geoLast>>

\* The transform of the map: zoom and its limits, centre and its limits.
VARIABLES
    minZoom,       \* transform.minZoom
    maxZoom,       \* transform.maxZoom
    zoom,          \* transform.zoom
    lngRange,      \* transform.lngRange: <<>> (null) or <<west, east>>
    latRange,      \* transform.latRange: <<>> (null) or <<south, north>>
    center,        \* transform.center: <<lng, lat>>
    camLast        \* the last call on the camera and how it ended

camVars == <<minZoom, maxZoom, zoom, lngRange, latRange, center, camLast>>

\* How the last isSourceLoaded, addImage or hasImage call ended.
VARIABLES
    qret           \* the method, whether its input was good, what it returned

callVars == <<qret>>

\* The last hit-test query made.
VARIABLES
    qgeom          \* what queryRenderedFeatures was given and what it built

hitVars == <<qgeom>>

\* Whether the callers of the map have made their last call.
VARIABLES
    quiet          \* nothing calls the map any more and nothing in it is in transition

quietVars == <<quiet>>

\* The debug flags of the map.
VARIABLES
    _showTileBoundaries,\* "undefined" until first assigned, then "true" or "false"
    _showCollisionBoxes,\* the same
    _showOverdrawInspector,\* the same
    dbgLast        \* the last assignment to a debug flag: flag, value, raised an error

dbgVars == <<_showTileBoundaries, _showCollisionBoxes, _showOverdrawInspector, dbgLast>>
\* The double-click zoom handler, the platform's timers and the map's zoomend listeners.
VARIABLES
    _enabled,      \* "undefined" until first assigned, then "true" or "false"
    _active,       \* the same
    _tapped,       \* the timer of the open tap window, 0 when there is none
    timers,        \* the timers that are set and have neither run nor been cleared
    timerCount,    \* the timers set so far
    zoomendSubs,   \* how often _onZoomEnd is among the map's zoomend listeners
    dczLast        \* the last operation on the handler: name, argument, it called _zoom

dczVars == <<_enabled, _active, _tapped, timers, timerCount, zoomendSubs, dczLast>>

\* A canvas source and the canvas it reads.
VARIABLES
    canvasSize,    \* width and height of the canvas element
    animate,       \* the source's animate field
    canvas,        \* this.canvas is set
    hasPlay,       \* load has defined play and pause
    _playing,      \* "undefined" until first assigned, then "true" or "false"
    finished,      \* load has called _finishLoading
    csLast         \* the last operation on the source: name, it raised an error, it fired an error event

csVars == <<canvasSize, animate, canvas, hasPlay, _playing, finished, csLast>>

restVars == <<evVars, styleVars, tqVars, geoVars, camVars, callVars, hitVars, quietVars, dbgVars, dczVars, csVars>>
notEvVars == <<schedVars, styleVars, tqVars, geoVars, camVars, callVars, hitVars, quietVars, dbgVars, dczVars, csVars>>
notStyleVars == <<evVars, tqVars, geoVars, camVars, callVars, hitVars, quietVars, dbgVars, dczVars, csVars>>
notQueueVars == <<evVars, styleVars, geoVars, camVars, callVars, hitVars, quietVars, dbgVars, dczVars, csVars>>
notGeoVars == <<schedVars, evVars, styleVars, tqVars, camVars, callVars, hitVars, quietVars, dbgVars, dczVars, csVars>>
notCamVars == <<evVars, styleVars, tqVars, geoVars, callVars, hitVars, quietVars, dbgVars, dczVars, csVars>>
notCallVars == <<evVars, styleVars, tqVars, geoVars, camVars, hitVars, quietVars, dbgVars, dczVars, csVars>>
notHitVars == <<evVars, styleVars, tqVars, geoVars, camVars, callVars, quietVars, dbgVars, dczVars, csVars>>
notQuietVars == <<evVars, styleVars, tqVars, geoVars, camVars, callVars, hitVars, dbgVars, dczVars, csVars>>
notDbgVars == <<evVars, styleVars, tqVars, geoVars, camVars, callVars, hitVars, quietVars, dczVars, csVars>>
notDczVars == <<evVars, styleVars, tqVars, geoVars, camVars, callVars, hitVars, quietVars, dbgVars, csVars>>
notCsVars == <<evVars, styleVars, tqVars, geoVars, camVars, callVars, hitVars, quietVars, dbgVars, dczVars>>
vars == <<schedVars, restVars>>

\* ------------------------------------------------- browser.frame (platform)
\* The handle browser.frame returns: one the platform does not hold.
NewHandle(pf) == CHOOSE h \in 1..(Cardinality(pf) + 1) :
                    h \notin pf /\ \A g \in 1..(h - 1) : g \in pf

\* handle.cancel(): the platform forgets the callback.
Cancel(pf, h) == pf \ {h}

\* --------------------------------------------------------------- _rerender
RerenderSchedulesAlways(st, fr) == st # 0

\* _rerender asks for a frame only with a style and no frame pending.
RerenderSchedules(st, fr) == st # 0 /\ fr = 0

FrameAfterRerender(st, fr, pf) ==
    IF RerenderSchedules(st, fr) THEN NewHandle(pf) ELSE fr

PlatformAfterRerender(st, fr, pf) ==
    IF RerenderSchedules(st, fr) THEN pf \cup {NewHandle(pf)} ELSE pf

\* ----------------------------------------------------------------- _update
UpdateActsNever(st) == FALSE

UpdateActsAlways(st) == TRUE

\* _update(updateStyle) returns at once without a style.
UpdateActs(st) == st # 0

StyleDirtyAfterUpdateOverwrites(sd, b) == b

StyleDirtyAfterUpdate(sd, b) == sd \/ b

\* ------------------------------------------------------------------ loaded
LoadedAnswerIgnoresSources(sd, srd, st, sl) == ~sd /\ st # 0 /\ sl

\* loaded(): false with a dirty flag, false without a style or with a style
\* that is not loaded, true otherwise.
LoadedAnswer(sd, srd, st, sl) ==
    IF sd \/ srd THEN FALSE
    ELSE IF st = 0 \/ ~sl THEN FALSE
    ELSE TRUE

Loaded == LoadedAnswer(_styleDirty, _sourcesDirty, style, styleLoaded)

\* The caller is outside a tick, or is a callee of the tick that has not returned.
CanCall == pc = "idle" \/ inCall
Reentrant == pc # "idle"


\* ------------------------------------------------------------ TaskQueue
QueueAdd(q, id) == Append(q, id)

QueueRemove(q, id) == SelectSeq(q, LAMBDA t : t # id)

\* --------------------------------------------------------------- history
NoBurst == /\ burstCalls' = 0
           /\ burstStyle' = FALSE
           /\ burstStyle0' = FALSE
           /\ burstFrames' = 0

\* One more _update in a row, made outside a tick; a burst begins only
\* where no frame is scheduled.
BurstUpdate(b) ==
    LET asked == IF RerenderSchedules(style, _frame) THEN 1 ELSE 0
    IN  IF pc = "idle" /\ style # 0 /\ (burstCalls > 0 \/ _frame = 0)
        THEN /\ burstCalls' = Min(burstCalls + 1, MaxBurst)
             /\ burstStyle' = (burstStyle \/ b)
             /\ burstStyle0' = IF burstCalls = 0 THEN _styleDirty ELSE burstStyle0
             /\ burstFrames' = Min(burstFrames + asked, MaxBurst)
        ELSE NoBurst

\* What every step that is not part of a burst records.  op is "update" for
\* a bare _update, "mutation" for an operation that ends in _update, "call"
\* for one that does not, "frame" for the frame callback's entry, "step" for
\* a step inside the tick, "resched" for the tick's last step, and the
\* handler's name for the two context signals.
Did(o, ev) == /\ op' = o
              /\ emitted' = ev
              /\ NoBurst

\* ------------------------------------------------- _update, as a sub-step
\* The effect of this._update(b) on the fields it touches (lines 1565-1572
\* and, through _rerender, 1700-1707).
DoUpdate(b) ==
    IF UpdateActs(style)
    THEN /\ _styleDirty' = StyleDirtyAfterUpdate(_styleDirty, b)
         /\ _sourcesDirty' = TRUE
         /\ _frame' = FrameAfterRerender(style, _frame, platformFrames)
         /\ platformFrames' = PlatformAfterRerender(style, _frame, platformFrames)
         /\ reSrc' = (reSrc \/ Reentrant)
         /\ reStyle' = (reStyle \/ (Reentrant /\ b))
         /\ owedStyle' = (owedStyle \/ b)
    ELSE UNCHANGED <<_styleDirty, _sourcesDirty, _frame, platformFrames, reSrc,
                     reStyle, owedStyle>>

\* -------------------------------------------------------------------- Init
Init == /\ style = 0
        /\ _styleDirty = FALSE
        /\ _sourcesDirty = FALSE
        /\ _placementDirty = FALSE
        /\ _repaint = FALSE
        /\ _loaded = FALSE
        /\ _frame = 0
        /\ _crossFadingFactor = FactorOne
        /\ queue = <<>>
        /\ running = <<>>
        /\ taskId = 0
        /\ styleLoaded = FALSE
        /\ contextIsLost = FALSE
        /\ platformFrames = {}
        /\ pc = "idle"
        /\ inCall = FALSE
        /\ crossFading = FALSE
        /\ op = "init"
        /\ emitted = <<>>
        /\ removed = FALSE
        /\ tickLog = <<>>
        /\ loadCount = 0
        /\ burstCalls = 0
        /\ burstStyle = FALSE
        /\ burstStyle0 = FALSE
        /\ burstFrames = 0
        /\ reSrc = FALSE
        /\ reStyle = FALSE
        /\ owedStyle = FALSE
        /\ regs = <<>>
        /\ subs = <<>>
        /\ evOp = "none"
        /\ lastReg = <<>>
        /\ lastEv = <<>>
        /\ calls = <<>>
        /\ delivered = {}
        /\ evFeatures = "none"
        /\ evThrew = FALSE
        /\ styles = <<>>
        /\ styleObj = 0
        /\ setStyleCalls = 0
        /\ ssArgs = [kind |-> "none", content |-> 1, diffFalse |-> FALSE,
                     font |-> FALSE, outcome |-> "same", found |-> 0]
        /\ ssCalls = <<>>
        /\ ssReturn = "this"
        /\ qBy = {}
        /\ snapshot = <<>>
        /\ ranNow = <<>>
        /\ ranAll = {}
        /\ dropped = {}
        /\ tqCall = <<"none", 0>>
        /\ points = <<>>
        /\ geoLast = <<"none">>
        /\ minZoom = 0
        /\ maxZoom = 22
        /\ zoom = 0
        /\ lngRange = <<>>
        /\ latRange = <<>>
        /\ center = <<0, 0>>
        /\ camLast = <<"none">>
        /\ qret = [m |-> "none", good |-> TRUE, ret |-> "undefined",
                   threw |-> FALSE]
        /\ qgeom = [kind |-> "none", a |-> <<0, 0>>, b |-> <<0, 0>>,
                    built |-> FALSE, viewport |-> <<>>,
                    worldCoordinate |-> <<>>, ret |-> "none"]
        /\ quiet = FALSE
        /\ _showTileBoundaries = "undefined"
        /\ _showCollisionBoxes = "undefined"
        /\ _showOverdrawInspector = "undefined"
        /\ dbgLast = <<"none", FALSE, FALSE>>
        /\ _enabled = "undefined"
        /\ _active = "undefined"
        /\ _tapped = 0
        /\ timers = {}
        /\ timerCount = 0
        /\ zoomendSubs = 0
        /\ dczLast = <<"none", 0, FALSE>>
        /\ canvasSize = <<[k |-> "num", v |-> 2], [k |-> "num", v |-> 2]>>
        /\ animate = TRUE
        /\ canvas = FALSE
        /\ hasPlay = FALSE
        /\ _playing = "undefined"
        /\ finished = FALSE
        /\ csLast = <<"new", FALSE, FALSE>>

\* ------------------------------------------------ operations on the map
\* map._update(b): any mutation, the 'move' and 'zoom' listeners, the
\* window 'online' handler.
Update(b) ==
    /\ CanCall
    /\ DoUpdate(b)
    /\ BurstUpdate(b)
    /\ op' = "update"
    /\ emitted' = <<>>
    /\ UNCHANGED <<style, _placementDirty, _repaint, _loaded,
                   _crossFadingFactor, queueVars, styleLoaded, contextIsLost,
                   tickVars, tickLog, loadCount, removed>>
    /\ UNCHANGED restVars

\* A 'data' event of the style reaches the map: _onData.  dataType = 'style'
\* passes updateStyle = true; the event is fired again as <dataType>data.  l is what style.loaded() answers from now on.
StyleData(b, l) ==
    /\ CanCall
    /\ style # 0
    /\ DoUpdate(b)
    /\ styleLoaded' = l
    /\ Did("mutation", <<IF b THEN "styledata" ELSE "sourcedata">>)
    /\ UNCHANGED <<style, _placementDirty, _repaint, _loaded,
                   _crossFadingFactor, queueVars, contextIsLost, tickVars,
                   tickLog, loadCount, removed>>
    /\ UNCHANGED restVars

\* set repaint(value)
SetRepaint(v) ==
    /\ CanCall
    /\ _repaint' = v
    /\ DoUpdate(FALSE)
    /\ Did("mutation", <<>>)
    /\ UNCHANGED <<style, _placementDirty, _loaded, _crossFadingFactor,
                   queueVars, styleLoaded, contextIsLost, tickVars, tickLog,
                   loadCount, removed>>
    /\ UNCHANGED restVars

\* this.map._rerender() called from outside the map, with no dirty flag
\* raised (canvas_source.js line 129).
RerenderCall ==
    /\ CanCall
    /\ _frame' = FrameAfterRerender(style, _frame, platformFrames)
    /\ platformFrames' = PlatformAfterRerender(style, _frame, platformFrames)
    /\ Did("call", <<>>)
    /\ UNCHANGED <<style, _styleDirty, _sourcesDirty, _placementDirty,
                   _repaint, _loaded, _crossFadingFactor, queueVars,
                   styleLoaded, contextIsLost, tickVars, tickLog, loadCount,
                   removed, reSrc, reStyle, owedStyle>>

\* CanvasSource.play: this.map._rerender(), with no dirty flag raised.
Play ==
    /\ RerenderCall
    /\ UNCHANGED restVars

RequestRenderFrameWithoutAdd(n) ==
    /\ CanCall
    /\ taskId < n
    /\ DoUpdate(FALSE)
    /\ taskId' = taskId + 1
    /\ Did("mutation", <<>>)
    /\ UNCHANGED <<style, _placementDirty, _repaint, _loaded,
                   _crossFadingFactor, queue, running, styleLoaded,
                   contextIsLost, tickVars, tickLog, loadCount, removed>>

\* _requestRenderFrame(callback); n bounds the ids ever issued.
RequestRenderFrameSched(n) ==
    /\ CanCall
    /\ taskId < n
    /\ DoUpdate(FALSE)
    /\ taskId' = taskId + 1
    /\ queue' = QueueAdd(queue, taskId + 1)
    /\ Did("mutation", <<>>)
    /\ UNCHANGED <<style, _placementDirty, _repaint, _loaded,
                   _crossFadingFactor, running, styleLoaded, contextIsLost,
                   tickVars, tickLog, loadCount, removed>>

RequestRenderFrame ==
    /\ RequestRenderFrameSched(MaxTaskId)
    /\ UNCHANGED restVars

\* _cancelRenderFrame(id), for an id up to n.
CancelRenderFrameSched(id, n) ==
    /\ CanCall
    /\ id <= n
    /\ queue' = QueueRemove(queue, id)
    /\ running' = QueueRemove(running, id)
    /\ Did("call", <<>>)
    /\ UNCHANGED <<mapVars, taskId, collabVars, tickVars, tickLog, loadCount,
                   removed, reSrc, reStyle, owedStyle>>

CancelRenderFrame(id) ==
    /\ CancelRenderFrameSched(id, taskId)
    /\ UNCHANGED restVars


\* Style.setState(payload): the patch applied (TRUE), nothing to patch
\* (FALSE), or an error.
SetStateOutcomes == {"changed", "same", "throws"}

\* setStyle tries the patch with a style present, options that allow it and
\* a parsed object as payload.
ShouldTryDiff(st, p, isObject, optsAllow) ==
    optsAllow /\ st # 0 /\ p # 0 /\ isObject

\* After remove() no method of the map may be called (its documentation,
\* line 1677); the calls that are no-ops without a style stay possible, but
\* no style is installed into a removed map.
\* setStyle(p, options); p = 0 is null, p = 1 a style; isObject tells a parsed object from
\* a URL string, optsAllow is (!options || (diff !== false && no font override)).
SetStyleSched(p, isObject, optsAllow, outcome) ==
    /\ CanCall
    /\ ~removed
    /\ p = 0 => isObject
    /\ ~ShouldTryDiff(style, p, isObject, optsAllow) => outcome = "throws"
    /\ IF ShouldTryDiff(style, p, isObject, optsAllow) /\ outcome # "throws"
       THEN IF outcome = "changed"
            THEN /\ style' = p
                 /\ DoUpdate(TRUE)
                 /\ UNCHANGED styleLoaded
            ELSE UNCHANGED <<style, styleLoaded, _styleDirty, _sourcesDirty,
                             _frame, platformFrames,
                             reSrc, reStyle, owedStyle>>
       ELSE /\ style' = p
            /\ styleLoaded' = FALSE
            /\ UNCHANGED <<_styleDirty, _sourcesDirty, _frame,
                           platformFrames, reSrc, reStyle, owedStyle>>
    /\ Did(IF ShouldTryDiff(style, p, isObject, optsAllow) /\ outcome = "changed"
           THEN "mutation" ELSE "call", <<>>)
    /\ UNCHANGED <<_placementDirty, _repaint, _loaded, _crossFadingFactor,
                   queueVars, contextIsLost, tickVars, tickLog, loadCount,
                   removed>>

\* setStyle, as the render scheduler sees it.
SetStyle(p, isObject, optsAllow, outcome) ==
    /\ SetStyleSched(p, isObject, optsAllow, outcome)
    /\ UNCHANGED restVars

FrameAfterRemoveKept(fr) == fr

\* remove(): this._frame after lines 1681-1684.
FrameAfterRemove(fr) == 0

\* remove()
Remove ==
    /\ CanCall
    /\ _frame' = FrameAfterRemove(_frame)
    /\ platformFrames' = IF _frame # 0 THEN Cancel(platformFrames, _frame)
                         ELSE platformFrames
    /\ queue' = <<>>
    /\ running' = <<>>
    /\ style' = 0
    /\ removed' = TRUE
    /\ styleLoaded' = FALSE
    /\ reSrc' = FALSE
    /\ reStyle' = FALSE
    /\ Did("call", <<"remove">>)
    /\ UNCHANGED <<_styleDirty, _sourcesDirty, _placementDirty, _repaint,
                   _loaded, _crossFadingFactor, taskId, contextIsLost,
                   tickVars, tickLog, loadCount, owedStyle>>
    /\ UNCHANGED restVars

FrameAfterContextLostKept(fr) == fr

\* _contextLost: this._frame after the handler.
FrameAfterContextLost(fr) == 0

PlatformAfterContextLostNoCancel(fr, pf) == pf

\* _contextLost cancels the pending frame, if any.
PlatformAfterContextLost(fr, pf) == IF fr # 0 THEN Cancel(pf, fr) ELSE pf

\* The canvas' webglcontextlost event: _contextLost.  A DOM event, it is
\* dispatched outside any tick.
ContextLost ==
    /\ pc = "idle"
    /\ ~contextIsLost
    /\ contextIsLost' = TRUE
    /\ _frame' = FrameAfterContextLost(_frame)
    /\ platformFrames' = PlatformAfterContextLost(_frame, platformFrames)
    /\ Did("contextLost", <<"webglcontextlost">>)
    /\ UNCHANGED <<style, _styleDirty, _sourcesDirty, _placementDirty,
                   _repaint, _loaded, _crossFadingFactor, queueVars,
                   styleLoaded, tickVars, tickLog, loadCount, removed, reSrc,
                   reStyle, owedStyle>>
    /\ UNCHANGED restVars

\* The canvas' webglcontextrestored event: _contextRestored.  resize() fires
\* 'move', whose listener is _update(false); then _update() is called: the
\* second call finds the flag raised and the frame asked for.
ContextRestored ==
    /\ pc = "idle"
    /\ contextIsLost
    /\ contextIsLost' = FALSE
    /\ DoUpdate(FALSE)
    /\ Did("contextRestored",
           <<"movestart", "move", "resize", "moveend", "webglcontextrestored">>)
    /\ UNCHANGED <<style, _placementDirty, _repaint, _loaded,
                   _crossFadingFactor, queueVars, styleLoaded, tickVars,
                   tickLog, loadCount, removed>>
    /\ UNCHANGED restVars


\* ---------------------------------------------------------- the render tick
FrameAtEntryKept(fr) == fr

\* The frame callback clears this._frame before it calls _render (line 1703).
FrameAtEntry(fr) == 0

\* The platform runs the callback of handle h: _frame = null, then _render,
\* whose first statement is _renderTaskQueue.run(), which takes the queue as
\* its snapshot.
FrameFireSched(h) ==
    /\ pc = "idle"
    /\ h \in platformFrames
    /\ platformFrames' = platformFrames \ {h}
    /\ _frame' = FrameAtEntry(_frame)
    /\ running' = queue
    /\ queue' = <<>>
    /\ pc' = "tasks"
    /\ inCall' = FALSE
    /\ crossFading' = FALSE
    /\ tickLog' = <<"run">>
    /\ op' = "frame"
    /\ emitted' = <<>>
    /\ UNCHANGED <<style, _styleDirty, _sourcesDirty, _placementDirty,
                   _repaint, _loaded, _crossFadingFactor, taskId,
                   styleLoaded, contextIsLost, loadCount, removed,
                   burstCalls, burstStyle, burstStyle0, burstFrames, reSrc,
                   reStyle, owedStyle>>

FrameFire(h) ==
    /\ FrameFireSched(h)
    /\ UNCHANGED restVars

\* run() calls the next task of its snapshot.
RunTaskSched ==
    /\ pc = "tasks" /\ ~inCall
    /\ running # <<>>
    /\ running' = Tail(running)
    /\ inCall' = TRUE
    /\ Did("step", <<>>)
    /\ UNCHANGED <<mapVars, queue, taskId, collabVars, pc, crossFading,
                   tickLog, loadCount, removed, reSrc, reStyle, owedStyle>>

RunTask ==
    /\ RunTaskSched
    /\ UNCHANGED restVars

\* A callee of the tick returns (style._updatePlacement: PlacementReturn).
Return ==
    /\ inCall
    /\ pc # "placement"
    /\ inCall' = FALSE
    /\ Did("step", <<>>)
    /\ UNCHANGED <<mapVars, queueVars, collabVars, pc, crossFading, tickLog,
                   loadCount, removed, reSrc, reStyle, owedStyle>>
    /\ UNCHANGED restVars

CrossFadingIfNotOne(f, cff) == f # FactorOne

CrossFadingAlways(f, cff) == TRUE

\* Lines 1621-1625: the tick takes the factor as cross-fading.
CrossFadingTest(f, cff) == f # FactorOne \/ f # cff

StyleStepRunsAlways(st, sd) == st # 0

\* Line 1607
StyleStepRuns(st, sd) == st # 0 /\ sd

\* Lines 1602-1628: with a style that is dirty, clear the flag, take the
\* cross-fading factor f and call style.update.
StyleStep(f) ==
    /\ pc = "tasks" /\ ~inCall
    /\ running = <<>>
    /\ pc' = "style"
    /\ IF StyleStepRuns(style, _styleDirty)
       THEN /\ _styleDirty' = FALSE
            /\ IF CrossFadingTest(f, _crossFadingFactor)
               THEN crossFading' = TRUE /\ _crossFadingFactor' = f
               ELSE crossFading' = FALSE /\ UNCHANGED _crossFadingFactor
            /\ inCall' = TRUE
            /\ tickLog' = Append(tickLog, "style.update")
            /\ reStyle' = FALSE
            /\ owedStyle' = FALSE
       ELSE /\ f = FactorOne
            /\ crossFading' = FALSE
            /\ UNCHANGED <<_styleDirty, _crossFadingFactor, inCall, tickLog,
                           reStyle, owedStyle>>
    /\ Did("step", <<>>)
    /\ UNCHANGED <<style, _sourcesDirty, _placementDirty, _repaint, _loaded,
                   _frame, queueVars, collabVars, loadCount, removed, reSrc>>
    /\ UNCHANGED restVars

SourcesStepRunsAlways(st, sd) == st # 0

SourcesStepRunsNever(st, sd) == FALSE

\* Line 1633
SourcesStepRuns(st, sd) == st # 0 /\ sd

\* Lines 1633-1636: with a style and dirty sources, clear the flag and call
\* style._updateSources.
SourcesStep ==
    /\ pc = "style" /\ ~inCall
    /\ pc' = "sources"
    /\ IF SourcesStepRuns(style, _sourcesDirty)
       THEN /\ _sourcesDirty' = FALSE
            /\ inCall' = TRUE
            /\ tickLog' = Append(tickLog, "style._updateSources")
            /\ reSrc' = FALSE
       ELSE UNCHANGED <<_sourcesDirty, inCall, tickLog, reSrc>>
    /\ Did("step", <<>>)
    /\ UNCHANGED <<style, _styleDirty, _placementDirty, _repaint, _loaded,
                   _frame, _crossFadingFactor, queueVars, collabVars,
                   crossFading, loadCount, removed, reStyle, owedStyle>>
    /\ UNCHANGED restVars

\* Line 1638: with a style, call style._updatePlacement; without, the flag
\* takes the (falsy) value of this.style.
PlacementStep ==
    /\ pc = "sources" /\ ~inCall
    /\ pc' = "placement"
    /\ IF style # 0
       THEN /\ inCall' = TRUE
            /\ tickLog' = Append(tickLog, "style._updatePlacement")
            /\ UNCHANGED _placementDirty
       ELSE /\ _placementDirty' = FALSE
            /\ UNCHANGED <<inCall, tickLog>>
    /\ Did("step", <<>>)
    /\ UNCHANGED <<style, _styleDirty, _sourcesDirty, _repaint, _loaded,
                   _frame, _crossFadingFactor, queueVars, collabVars,
                   crossFading, loadCount, removed, reSrc, reStyle,
                   owedStyle>>
    /\ UNCHANGED restVars

\* style._updatePlacement returns d, which line 1638 assigns.
PlacementReturn(d) ==
    /\ pc = "placement" /\ inCall
    /\ inCall' = FALSE
    /\ _placementDirty' = d
    /\ Did("step", <<>>)
    /\ UNCHANGED <<style, _styleDirty, _sourcesDirty, _repaint, _loaded,
                   _frame, _crossFadingFactor, queueVars, collabVars, pc,
                   crossFading, tickLog, loadCount, removed, reSrc, reStyle,
                   owedStyle>>
    /\ UNCHANGED restVars

\* Lines 1641-1647: painter.render
PaintStep ==
    /\ pc = "placement" /\ ~inCall
    /\ pc' = "paint"
    /\ inCall' = TRUE
    /\ tickLog' = Append(tickLog, "painter.render")
    /\ Did("step", <<>>)
    /\ UNCHANGED <<mapVars, queueVars, collabVars, crossFading, loadCount,
                   removed, reSrc, reStyle, owedStyle>>
    /\ UNCHANGED restVars

\* Line 1649: the render event and its listeners
RenderEvtStep ==
    /\ pc = "paint" /\ ~inCall
    /\ pc' = "renderEvt"
    /\ inCall' = TRUE
    /\ tickLog' = Append(tickLog, "render")
    /\ Did("step", <<"render">>)
    /\ UNCHANGED <<mapVars, queueVars, collabVars, crossFading, loadCount,
                   removed, reSrc, reStyle, owedStyle>>
    /\ UNCHANGED restVars

LoadDueEveryTime(ld, l) == ld

\* Line 1651
LoadDue(ld, l) == ld /\ ~l

\* Lines 1651-1654: the load event, once
LoadStep ==
    /\ pc = "renderEvt" /\ ~inCall
    /\ pc' = "loadEvt"
    /\ IF LoadDue(Loaded, _loaded)
       THEN /\ _loaded' = TRUE
            /\ inCall' = TRUE
            /\ tickLog' = Append(tickLog, "load")
            /\ loadCount' = Min(loadCount + 1, MaxLoadCount)
            /\ Did("step", <<"load">>)
       ELSE /\ UNCHANGED <<_loaded, inCall, tickLog, loadCount>>
            /\ Did("step", <<>>)
    /\ UNCHANGED <<style, _styleDirty, _sourcesDirty, _placementDirty,
                   _repaint, _frame, _crossFadingFactor, queueVars,
                   collabVars, crossFading, removed, reSrc, reStyle,
                   owedStyle>>
    /\ UNCHANGED restVars

\* Line 1656: the style is made dirty again.
Redirty(st, t, cf) == st # 0 /\ (t \/ cf)

NeedsFrameIgnoresRepaint(srcD, rp, stD, plD) == srcD \/ stD \/ plD

NeedsFrameIgnoresPlacement(srcD, rp, stD, plD) == srcD \/ rp \/ stD

\* Line 1665
NeedsFrame(srcD, rp, stD, plD) == srcD \/ rp \/ stD \/ plD

\* Lines 1656-1669: t is what style.hasTransitions() answers.
Resched(t) ==
    /\ pc = "loadEvt" /\ ~inCall
    /\ style = 0 => ~t
    /\ pc' = "idle"
    /\ LET sd == _styleDirty \/ Redirty(style, t, crossFading)
           need == NeedsFrame(_sourcesDirty, _repaint, sd, _placementDirty)
       IN  /\ _styleDirty' = sd
           /\ _frame' = IF need
                        THEN FrameAfterRerender(style, _frame, platformFrames)
                        ELSE _frame
           /\ platformFrames' = IF need
                                THEN PlatformAfterRerender(style, _frame, platformFrames)
                                ELSE platformFrames
    /\ crossFading' = FALSE
    /\ tickLog' = <<>>
    /\ reSrc' = FALSE
    /\ reStyle' = FALSE
    /\ Did("resched", <<>>)
    /\ UNCHANGED <<style, _sourcesDirty, _placementDirty, _repaint, _loaded,
                   _crossFadingFactor, queueVars, styleLoaded, contextIsLost,
                   inCall, loadCount, removed, owedStyle>>
    /\ UNCHANGED restVars

\* ------------------------------------------------------------------- Next
Next ==
    \/ \E b \in BOOLEAN : Update(b)
    \/ \E b, l \in BOOLEAN : StyleData(b, l)
    \/ \E v \in BOOLEAN : SetRepaint(v)
    \/ Play
    \/ RequestRenderFrame
    \/ \E id \in 1..MaxTaskId : CancelRenderFrame(id)
    \/ \E p \in {0, 1}, isObject, optsAllow \in BOOLEAN,
          outcome \in SetStateOutcomes : SetStyle(p, isObject, optsAllow, outcome)
    \/ Remove
    \/ ContextLost
    \/ ContextRestored
    \/ \E h \in platformFrames : FrameFire(h)
    \/ RunTask
    \/ Return
    \/ \E f \in Factors : StyleStep(f)
    \/ SourcesStep
    \/ PlacementStep
    \/ \E d \in BOOLEAN : PlacementReturn(d)
    \/ PaintStep
    \/ RenderEvtStep
    \/ LoadStep
    \/ \E t \in BOOLEAN : Resched(t)

Spec == Init /\ [][Next]_vars

\* The steps the platform and the tick's callees take by themselves: the
\* platform runs every callback it holds, and a callee returns.
TickNext ==
    \/ \E h \in platformFrames : FrameFire(h)
    \/ RunTask
    \/ Return
    \/ \E f \in Factors : StyleStep(f)
    \/ SourcesStep
    \/ PlacementStep
    \/ \E d \in BOOLEAN : PlacementReturn(d)
    \/ PaintStep
    \/ RenderEvtStep
    \/ LoadStep
    \/ \E t \in BOOLEAN : Resched(t)

\* The map with neither context loss nor teardown.
LiveNext ==
    \/ \E b \in BOOLEAN : Update(b)
    \/ \E b, l \in BOOLEAN : StyleData(b, l)
    \/ \E v \in BOOLEAN : SetRepaint(v)
    \/ Play
    \/ RequestRenderFrame
    \/ \E id \in 1..MaxTaskId : CancelRenderFrame(id)
    \/ \E p \in {0, 1}, isObject, optsAllow \in BOOLEAN,
          outcome \in SetStateOutcomes : SetStyle(p, isObject, optsAllow, outcome)
    \/ TickNext

LiveSpec == Init /\ [][LiveNext]_vars /\ WF_vars(TickNext)


\* ===================================================== the mutation surface
\* The methods that change the style or the camera limits and end in _update.
StyleMethods == {"addSource", "removeSource", "addLayer", "moveLayer",
                 "removeLayer", "setFilter", "setLayerZoomRange",
                 "setPaintProperty", "setLayoutProperty", "setLight",
                 "setFeatureState"}
LimitMethods == {"setMaxBounds", "setMinZoom", "setMaxZoom"}
MutationSurface == StyleMethods \cup LimitMethods

\* The argument the method passes to _update: setFeatureState and the limit
\* setters call this._update(), the others this._update(true).
UpdateStyleArg(m) == m \in StyleMethods \ {"setFeatureState"}

\* Method m of the surface.  raises: the call the method makes first (into
\* the style, or the validation of the limit) raises, and the method ends
\* there; without a style every call into the style raises.
Mutate(m, raises) ==
    /\ CanCall
    /\ (style = 0 /\ m \in StyleMethods) => raises
    /\ IF raises
       THEN /\ UNCHANGED <<_styleDirty, _sourcesDirty, _frame, platformFrames,
                            reSrc, reStyle, owedStyle>>
            /\ Did("raised", <<>>)
       ELSE /\ DoUpdate(UpdateStyleArg(m))
            /\ Did("surface", <<>>)
    /\ UNCHANGED <<style, _placementDirty, _repaint, _loaded,
                   _crossFadingFactor, queueVars, styleLoaded, contextIsLost,
                   tickVars, tickLog, loadCount, removed>>
    /\ UNCHANGED restVars

\* Methods that call into the style or not, and pass the same argument to
\* _update, act alike: one method of each such class is called.
SurfaceClass(m) == <<m \in StyleMethods, UpdateStyleArg(m)>>
SurfaceMethods ==
    {CHOOSE m \in MutationSurface : SurfaceClass(m) = c :
        c \in {SurfaceClass(m) : m \in MutationSurface}}

SurfaceNext ==
    \/ \E m \in SurfaceMethods, raises \in BOOLEAN : Mutate(m, raises)
    \/ \E p \in {0, 1}, isObject, optsAllow \in BOOLEAN,
          outcome \in SetStateOutcomes : SetStyle(p, isObject, optsAllow, outcome)
    \/ ContextLost
    \/ ContextRestored
    \/ \E h \in platformFrames : FrameFire(h)
    \/ Return
    \/ \E f \in Factors : StyleStep(f)
    \/ SourcesStep
    \/ PlacementStep
    \/ \E d \in BOOLEAN : PlacementReturn(d)
    \/ PaintStep
    \/ RenderEvtStep
    \/ LoadStep
    \/ \E t \in BOOLEAN : Resched(t)

SurfaceSpec == Init /\ [][SurfaceNext]_vars


\* ============================================== the frame task queue, run
\* The render task queue with the record of what it has called.
MaxQueueTasks == 3

Range(q) == {q[i] : i \in DOMAIN q}

\* _requestRenderFrame(callback)
RequestRenderFrameQ ==
    /\ RequestRenderFrameSched(MaxQueueTasks)
    /\ tqCall' = <<"add", taskId + 1>>
    /\ UNCHANGED <<snapshot, ranNow, ranAll, dropped>>
    /\ UNCHANGED notQueueVars

\* _cancelRenderFrame(id), of an id issued or not; a task of the running
\* snapshot that is removed before its turn is dropped from the run.
CancelRenderFrameQ(id) ==
    /\ CancelRenderFrameSched(id, MaxQueueTasks)
    /\ dropped' = dropped \cup ({id} \cap Range(running))
    /\ tqCall' = <<"remove", id>>
    /\ UNCHANGED <<snapshot, ranNow, ranAll>>
    /\ UNCHANGED notQueueVars

\* The frame callback: run() begins with the queue as it is.
FrameFireQ(h) ==
    /\ FrameFireSched(h)
    /\ snapshot' = queue
    /\ ranNow' = <<>>
    /\ ranAll' = ranAll \cup Range(ranNow)
    /\ dropped' = {}
    /\ tqCall' = <<"run", 0>>
    /\ UNCHANGED notQueueVars

\* run() calls the next task of its snapshot.
RunTaskQ ==
    /\ RunTaskSched
    /\ ranNow' = Append(ranNow, Head(running))
    /\ tqCall' = <<"task", Head(running)>>
    /\ UNCHANGED <<snapshot, ranAll, dropped>>
    /\ UNCHANGED notQueueVars

\* setStyle, which is no call to the queue.
SetStyleQ(p, isObject, optsAllow, outcome) ==
    /\ SetStyleSched(p, isObject, optsAllow, outcome)
    /\ tqCall' = <<"none", 0>>
    /\ UNCHANGED <<snapshot, ranNow, ranAll, dropped>>
    /\ UNCHANGED notQueueVars

QueueNext ==
    \/ RequestRenderFrameQ
    \/ \E id \in 1..MaxQueueTasks : CancelRenderFrameQ(id)
    \/ \E h \in platformFrames : FrameFireQ(h)
    \/ RunTaskQ
    \/ \E p \in {0, 1}, outcome \in SetStateOutcomes :
          SetStyleQ(p, TRUE, TRUE, outcome)
    \/ Return
    \/ StyleStep(FactorOne)
    \/ SourcesStep
    \/ PlacementStep
    \/ \E d \in BOOLEAN : PlacementReturn(d)
    \/ PaintStep
    \/ RenderEvtStep
    \/ LoadStep
    \/ \E t \in BOOLEAN : Resched(t)

QueueSpec == Init /\ [][QueueNext]_vars

\* The queue with fewer tasks, a style that is set or removed, and the
\* platform running every frame callback it holds and every callee of the
\* tick returning.
MaxLiveTasks == 2

RequestRenderFrameL ==
    /\ RequestRenderFrameSched(MaxLiveTasks)
    /\ tqCall' = <<"add", taskId + 1>>
    /\ UNCHANGED <<snapshot, ranNow, ranAll, dropped>>
    /\ UNCHANGED notQueueVars

QueueTick ==
    \/ \E h \in platformFrames : FrameFireQ(h)
    \/ RunTaskQ
    \/ Return
    \/ StyleStep(FactorOne)
    \/ SourcesStep
    \/ PlacementStep
    \/ PlacementReturn(FALSE)
    \/ PaintStep
    \/ RenderEvtStep
    \/ LoadStep
    \/ \E t \in BOOLEAN : Resched(t)

QueueLiveNext ==
    \/ RequestRenderFrameL
    \/ \E id \in 1..MaxLiveTasks : CancelRenderFrameQ(id)
    \/ \E p \in {0, 1} : SetStyleQ(p, TRUE, TRUE, "throws")
    \/ QueueTick

QueueLiveSpec == Init /\ [][QueueLiveNext]_vars /\ WF_vars(QueueTick)


\* ================================================================== LngLat
MaxPoints == 2

\* A number: a finite value (whole degrees), an infinity or not-a-number.
Fin(n) == [k |-> "num", v |-> n]
NaN == [k |-> "nan", v |-> 0]
PosInf == [k |-> "inf", v |-> 1]
NegInf == [k |-> "inf", v |-> -1]

IsNaN(x) == x.k = "nan"
IsFinite(x) == x.k = "num"

\* x > n and x < n for a whole n; every comparison with not-a-number is false.
Gt(x, n) == IF x.k = "num" THEN x.v > n ELSE x.k = "inf" /\ x.v = 1
Lt(x, n) == IF x.k = "num" THEN x.v < n ELSE x.k = "inf" /\ x.v = -1

LngInputs == {Fin(-540), Fin(-180), Fin(0), Fin(180), Fin(200), NaN, PosInf}
LatInputs == {Fin(-91), Fin(-90), Fin(10), Fin(90), Fin(91), NaN, NegInf}

LngLatNewAcceptsAnyLat(lng, lat) ==
    IF IsNaN(lng) \/ IsNaN(lat)
    THEN [ok |-> FALSE, lng |-> lng, lat |-> lat]
    ELSE [ok |-> TRUE, lng |-> lng, lat |-> lat]

\* new LngLat(lng, lat): the object, or an error.
LngLatNew(lng, lat) ==
    IF IsNaN(lng) \/ IsNaN(lat)
    THEN [ok |-> FALSE, lng |-> lng, lat |-> lat]
    ELSE IF Gt(lat, 90) \/ Lt(lat, -90)
    THEN [ok |-> FALSE, lng |-> lng, lat |-> lat]
    ELSE [ok |-> TRUE, lng |-> lng, lat |-> lat]

\* util.wrap(n, min, max): n moved by a multiple of max - min into
\* [min, max); the arithmetic gives not-a-number for an infinity.
UtilWrap(x, min, max) ==
    IF x.k = "num" THEN Fin(((x.v - min) % (max - min)) + min) ELSE NaN

LngLatWrapTo360(p) == LngLatNew(UtilWrap(p.lng, 0, 360), p.lat)

\* wrap(): new LngLat(wrap(this.lng, -180, 180), this.lat)
LngLatWrap(p) == LngLatNew(UtilWrap(p.lng, -180, 180), p.lat)

Object(r) == [lng |-> r.lng, lat |-> r.lat]

\* new LngLat(lng, lat) by a caller.
Construct(lng, lat) ==
    LET r == LngLatNew(lng, lat)
    IN  /\ Len(points) < MaxPoints
        /\ points' = IF r.ok THEN Append(points, Object(r)) ELSE points
        /\ geoLast' = <<"new", lng, lat, r.ok>>
        /\ UNCHANGED notGeoVars

\* points[i].wrap()
Wrap(i) ==
    LET r == LngLatWrap(points[i])
    IN  /\ Len(points) < MaxPoints
        /\ points' = IF r.ok THEN Append(points, Object(r)) ELSE points
        /\ geoLast' = <<"wrap", i, r.ok>>
        /\ UNCHANGED notGeoVars

GeoNext ==
    \/ \E lng \in LngInputs, lat \in LatInputs : Construct(lng, lat)
    \/ \E i \in DOMAIN points : Wrap(i)

GeoSpec == Init /\ [][GeoNext]_vars


\* ============================================================ zoom limits
defaultMinZoom == 0
defaultMaxZoom == 22

\* An argument that was not given, or given as null.
Undefined == [k |-> "undef", v |-> 0]

\* x >= n and x <= n for a whole n; false for not-a-number.
Ge(x, n) == IF x.k = "num" THEN x.v >= n ELSE x.k = "inf" /\ x.v = 1
Le(x, n) == IF x.k = "num" THEN x.v <= n ELSE x.k = "inf" /\ x.v = -1

OrDefault(x, d) == IF x.k = "undef" THEN Fin(d) ELSE x

ZoomOptions == {Undefined, Fin(-1), Fin(5), Fin(25)}
ZoomArgs == {Undefined, NaN, Fin(-1), Fin(0), Fin(5), Fin(25)}
ZoomLevels == {0, 5, 25}

\* transform.zoom = z: the zoom is kept within the limits.
TransformZoom(z, lo, hi) == IF z < lo THEN lo ELSE IF z > hi THEN hi ELSE z

HasMap == ~(camLast[1] = "new" /\ ~camLast[2])

\* What a camera call does to the scheduler: _update(b), made directly or by
\* the map's own move and zoom listeners.
CamUpdate(b) ==
    /\ CanCall
    /\ DoUpdate(b)
    /\ Did("camera", <<>>)
    /\ UNCHANGED <<style, _placementDirty, _repaint, _loaded,
                   _crossFadingFactor, queueVars, styleLoaded, contextIsLost,
                   tickVars, tickLog, loadCount, removed>>

CamRaised ==
    /\ CanCall
    /\ UNCHANGED schedVars

\* The constructor's test of its zoom options.
NewRaises(mn, mx) == mn.v > mx.v

\* new Map(options) with minZoom, maxZoom and zoom options.
MapNew(minOpt, maxOpt, zoomOpt) ==
    LET mn == OrDefault(minOpt, defaultMinZoom)
        mx == OrDefault(maxOpt, defaultMaxZoom)
        z == OrDefault(zoomOpt, 0)
    IN  /\ op = "init" /\ camLast = <<"none">>
        /\ IF NewRaises(mn, mx)
           THEN /\ UNCHANGED <<minZoom, maxZoom, zoom>>
                /\ camLast' = <<"new", FALSE, mn, mx>>
           ELSE /\ minZoom' = mn.v
                /\ maxZoom' = mx.v
                /\ zoom' = TransformZoom(z.v, mn.v, mx.v)
                /\ camLast' = <<"new", TRUE, mn, mx>>
        /\ UNCHANGED <<lngRange, latRange, center>>
        /\ UNCHANGED <<schedVars, notCamVars>>

SetMinZoomAcceptsBelowZero(m, lo, hi) == Le(m, hi)

SetMinZoomAccepts(m, lo, hi) == Ge(m, defaultMinZoom) /\ Le(m, hi)

SetMaxZoomAccepts(m, lo, hi) == Ge(m, lo)

\* setMinZoom(arg)
SetMinZoom(arg) ==
    LET m == OrDefault(arg, defaultMinZoom)
    IN  /\ HasMap
        /\ IF SetMinZoomAccepts(m, minZoom, maxZoom)
           THEN /\ minZoom' = m.v
                /\ zoom' = IF zoom < m.v
                           THEN TransformZoom(m.v, m.v, maxZoom) ELSE zoom
                /\ CamUpdate(zoom < m.v)
                /\ camLast' = <<"setMinZoom", TRUE, arg>>
           ELSE /\ UNCHANGED <<minZoom, zoom>>
                /\ CamRaised
                /\ camLast' = <<"setMinZoom", FALSE, arg>>
        /\ UNCHANGED <<maxZoom, lngRange, latRange, center>>
        /\ UNCHANGED notCamVars

\* setMaxZoom(arg)
SetMaxZoom(arg) ==
    LET m == OrDefault(arg, defaultMaxZoom)
    IN  /\ HasMap
        /\ IF SetMaxZoomAccepts(m, minZoom, maxZoom)
           THEN /\ maxZoom' = m.v
                /\ zoom' = IF zoom > m.v
                           THEN TransformZoom(m.v, minZoom, m.v) ELSE zoom
                /\ CamUpdate(zoom > m.v)
                /\ camLast' = <<"setMaxZoom", TRUE, arg>>
           ELSE /\ UNCHANGED <<maxZoom, zoom>>
                /\ CamRaised
                /\ camLast' = <<"setMaxZoom", FALSE, arg>>
        /\ UNCHANGED <<minZoom, lngRange, latRange, center>>
        /\ UNCHANGED notCamVars

\* setZoom(z)
SetZoom(z) ==
    /\ HasMap
    /\ zoom' = TransformZoom(z, minZoom, maxZoom)
    /\ CamUpdate(zoom # z)
    /\ camLast' = <<"setZoom", TRUE>>
    /\ UNCHANGED <<minZoom, maxZoom, lngRange, latRange, center>>
    /\ UNCHANGED notCamVars

ZoomNext ==
    \/ \E mn \in ZoomOptions, mx \in ZoomOptions, z \in ZoomOptions :
           MapNew(mn, mx, z)
    \/ \E a \in ZoomArgs : SetMinZoom(a)
    \/ \E a \in ZoomArgs : SetMaxZoom(a)
    \/ \E z \in ZoomLevels : SetZoom(z)
    \/ \E p \in {0, 1} : SetStyle(p, TRUE, TRUE, "throws")

ZoomSpec == Init /\ [][ZoomNext]_vars


\* ============================================================= max bounds
\* Half the width and height of what the viewport shows, in degrees.
HalfView == 1

\* A LngLatBounds: south-west and north-east corners, each <<lng, lat>>.
Bounds(w, sth, e, n) == [k |-> "bounds", sw |-> <<w, sth>>, ne |-> <<e, n>>]
NullBounds == [k |-> "null", sw |-> <<0, 0>>, ne |-> <<0, 0>>]
UndefinedBounds == [k |-> "undefined", sw |-> <<0, 0>>, ne |-> <<0, 0>>]

BoundsArgs == {NullBounds, UndefinedBounds, Bounds(-2, -2, 2, 2),
               Bounds(0, -1, 3, 1)}
Centers == {<<-4, 0>>, <<0, 0>>, <<1, 3>>, <<4, -4>>}

\* transform._constrain() on one axis: the centre is moved by the least
\* that puts what is shown inside the range.
ConstrainAxis(x, r) ==
    IF r = <<>> THEN x
    ELSE IF x < r[1] + HalfView THEN r[1] + HalfView
    ELSE IF x > r[2] - HalfView THEN r[2] - HalfView
    ELSE x

Constrain(c, lr, tr) == <<ConstrainAxis(c[1], lr), ConstrainAxis(c[2], tr)>>

\* What the viewport shows around a centre.
Visible(c) == Bounds(c[1] - HalfView, c[2] - HalfView,
                     c[1] + HalfView, c[2] + HalfView)

LngRangeAfterKeepsOnNull(b, cur) ==
    IF b.k = "bounds" THEN <<b.sw[1], b.ne[1]>> ELSE cur

\* transform.lngRange and latRange after setMaxBounds(b).
LngRangeAfter(b, cur) ==
    IF b.k = "bounds" THEN <<b.sw[1], b.ne[1]>>
    ELSE IF b.k \in {"null", "undefined"} THEN <<>>
    ELSE cur

LatRangeAfter(b, cur) ==
    IF b.k = "bounds" THEN <<b.sw[2], b.ne[2]>>
    ELSE IF b.k \in {"null", "undefined"} THEN <<>>
    ELSE cur

\* getMaxBounds()
GetMaxBoundsOf(lr, tr) ==
    IF tr # <<>> /\ Len(tr) = 2 /\ lr # <<>> /\ Len(lr) = 2
    THEN Bounds(lr[1], tr[1], lr[2], tr[2])
    ELSE NullBounds

GetMaxBounds == GetMaxBoundsOf(lngRange, latRange)

\* setMaxBounds(b)
SetMaxBounds(b) ==
    /\ HasMap
    /\ lngRange' = LngRangeAfter(b, lngRange)
    /\ latRange' = LatRangeAfter(b, latRange)
    /\ center' = IF b.k = "bounds"
                 THEN Constrain(center, lngRange', latRange') ELSE center
    /\ CamUpdate(FALSE)
    /\ camLast' = <<"setMaxBounds", b>>
    /\ UNCHANGED <<minZoom, maxZoom, zoom>>
    /\ UNCHANGED notCamVars

\* panTo(c): the centre is set and the transform constrains it.
PanTo(c) ==
    /\ HasMap
    /\ center' = Constrain(c, lngRange, latRange)
    /\ CamUpdate(FALSE)
    /\ camLast' = <<"panTo", c>>
    /\ UNCHANGED <<minZoom, maxZoom, zoom, lngRange, latRange>>
    /\ UNCHANGED notCamVars

BoundsNext ==
    \/ \E b \in BoundsArgs : SetMaxBounds(b)
    \/ \E c \in Centers : PanTo(c)
    \/ \E p \in {0, 1} : SetStyle(p, TRUE, TRUE, "throws")
    \/ \E h \in platformFrames : FrameFire(h)
    \/ Return
    \/ StyleStep(FactorOne)
    \/ SourcesStep
    \/ PlacementStep
    \/ PlacementReturn(FALSE)
    \/ PaintStep
    \/ RenderEvtStep
    \/ LoadStep
    \/ \E t \in BOOLEAN : Resched(t)

BoundsSpec == Init /\ [][BoundsNext]_vars


\* ============================================ failures told by an event
QueryMethods == {"isSourceLoaded", "addImage", "hasImage"}

\* How a call ends: the events it fires, what it returns, whether it raised
\* an error, whether it led to _update(true).
Res(ev, ret) == [events |-> ev, ret |-> ret, threw |-> FALSE, update |-> FALSE]
Threw == [events |-> <<>>, ret |-> "none", threw |-> TRUE, update |-> FALSE]
Bool(b) == IF b THEN "true" ELSE "false"

\* isSourceLoaded(id); known: the style has a source of that id.
IsSourceLoadedResult(hasStyle, known, ans) ==
    IF ~(hasStyle /\ known)
    THEN Res(<<"error">>, "undefined")
    ELSE Res(<<>>, Bool(ans))

\* addImage(id, image) with an image that is no HTMLImageElement; hasDims:
\* the image has a width and a height. The style tells of the new image with
\* a data event, which the map answers with _update(true).
AddImageResult(hasStyle, hasDims) ==
    IF ~hasDims THEN Res(<<"error">>, "this")
    ELSE IF ~hasStyle THEN Threw
    ELSE [events |-> <<"data", "styledata">>, ret |-> "undefined",
          threw |-> FALSE, update |-> TRUE]

HasImageResultSilent(hasStyle, idGiven, ans) ==
    IF ~idGiven THEN Res(<<>>, "false")
    ELSE IF ~hasStyle THEN Threw
    ELSE Res(<<>>, Bool(ans))

\* hasImage(id); idGiven: the id is not empty or undefined.
HasImageResult(hasStyle, idGiven, ans) ==
    IF ~idGiven THEN Res(<<"error">>, "false")
    ELSE IF ~hasStyle THEN Threw
    ELSE Res(<<>>, Bool(ans))

QueryResult(m, hasStyle, good, ans) ==
    IF m = "isSourceLoaded" THEN IsSourceLoadedResult(hasStyle, good, ans)
    ELSE IF m = "addImage" THEN AddImageResult(hasStyle, good)
    ELSE HasImageResult(hasStyle, good, ans)

\* One call of isSourceLoaded, addImage or hasImage.
QueryCall(m, good, ans) ==
    LET r == QueryResult(m, style # 0, good, ans)
    IN  /\ CanCall
        /\ (m = "isSourceLoaded" /\ good) => style # 0
        /\ IF r.update
           THEN DoUpdate(TRUE)
           ELSE UNCHANGED <<_styleDirty, _sourcesDirty, _frame, platformFrames,
                            reSrc, reStyle, owedStyle>>
        /\ Did(m, r.events)
        /\ qret' = [m |-> m, good |-> good, ret |-> r.ret, threw |-> r.threw]
        /\ UNCHANGED <<style, _placementDirty, _repaint, _loaded,
                       _crossFadingFactor, queueVars, styleLoaded,
                       contextIsLost, tickVars, tickLog, loadCount, removed>>
        /\ UNCHANGED notCallVars

QueryNext ==
    \/ \E m \in QueryMethods, good \in BOOLEAN, ans \in BOOLEAN :
           QueryCall(m, good, ans)
    \/ \E p \in {0, 1} : SetStyle(p, TRUE, TRUE, "throws")
    \/ \E b \in BOOLEAN : Update(b)
    \/ \E h \in platformFrames : FrameFire(h)
    \/ Return
    \/ StyleStep(FactorOne)
    \/ SourcesStep
    \/ PlacementStep
    \/ PlacementReturn(FALSE)
    \/ PaintStep
    \/ RenderEvtStep
    \/ LoadStep
    \/ \E t \in BOOLEAN : Resched(t)

QuerySpec == Init /\ [][QueryNext]_vars


\* ========================================================= hit-test query
\* transform.width and transform.height, in pixels.
Width == 4
Height == 3

\* What queryRenderedFeatures is called with: nothing, an options object
\* alone, a point (a Point or a pair of numbers), a box (a pair of points).
ScreenPoints == {<<0, 0>>, <<1, 2>>, <<3, 1>>}
GeometryArgs ==
    {[kind |-> k, a |-> <<0, 0>>, b |-> <<0, 0>>] : k \in {"omitted", "options"}}
    \cup {[kind |-> "point", a |-> a, b |-> <<0, 0>>] : a \in ScreenPoints}
    \cup {[kind |-> "box", a |-> a, b |-> b] : a \in ScreenPoints, b \in ScreenPoints}

\* transform.pointCoordinate(p): the world coordinate under a screen point.
PointCoordinate(p, c, z) == [column |-> p[1] + c[1], row |-> p[2] + c[2], zoom |-> z]

\* The ring of a box: its four corners, the first again at the end.
Ring(a, b) == <<a, <<b[1], a[2]>>, b, <<a[1], b[2]>>, a>>

RingLeftOpen(a, b) == <<a, <<b[1], a[2]>>, b, <<a[1], b[2]>> >>

\* The geometry argument after the sorting of the arguments: an options
\* object alone is no geometry.
GeometryGiven(arg) == arg.kind \in {"point", "box"}

MakeQueryGeometryOpen(arg, c, z) ==
    LET q == IF ~GeometryGiven(arg) THEN RingLeftOpen(<<0, 0>>, <<Width, Height>>)
             ELSE IF arg.kind = "point" THEN <<arg.a>>
             ELSE RingLeftOpen(arg.a, arg.b)
    IN  [viewport |-> q,
         worldCoordinate |-> [i \in DOMAIN q |-> PointCoordinate(q[i], c, z)]]

\* _makeQueryGeometry(pointOrBox)
MakeQueryGeometry(arg, c, z) ==
    LET q == IF ~GeometryGiven(arg) THEN Ring(<<0, 0>>, <<Width, Height>>)
             ELSE IF arg.kind = "point" THEN <<arg.a>>
             ELSE Ring(arg.a, arg.b)
    IN  [viewport |-> q,
         worldCoordinate |-> [i \in DOMAIN q |-> PointCoordinate(q[i], c, z)]]

\* queryRenderedFeatures(geometry?, options?)
QueryRenderedFeatures(arg) ==
    LET g == MakeQueryGeometry(arg, center, zoom)
    IN  /\ CanCall
        /\ qgeom' = IF style = 0
                    THEN [kind |-> arg.kind, a |-> arg.a, b |-> arg.b,
                          built |-> FALSE, viewport |-> <<>>,
                          worldCoordinate |-> <<>>, ret |-> "empty"]
                    ELSE [kind |-> arg.kind, a |-> arg.a, b |-> arg.b,
                          built |-> TRUE, viewport |-> g.viewport,
                          worldCoordinate |-> g.worldCoordinate,
                          ret |-> "style"]
        /\ UNCHANGED <<schedVars, notHitVars>>

HitNext ==
    \/ \E arg \in GeometryArgs : QueryRenderedFeatures(arg)
    \/ \E p \in {0, 1} : SetStyle(p, TRUE, TRUE, "throws")
    \/ \E c \in Centers : PanTo(c)
    \/ \E z \in ZoomLevels : SetZoom(z)

HitSpec == Init /\ [][HitNext]_vars


\* ============================================================= quiescence
\* From here on nothing calls the map, repaint is off, the style has no
\* transition in progress, placement answers false and the cross-fading
\* factor is 1.
GoQuiet ==
    /\ ~quiet /\ ~_repaint
    /\ quiet' = TRUE
    /\ UNCHANGED <<schedVars, notQuietVars>>

\* What callers and the platform do to the map while they still do anything.
Busy ==
    \/ \E b \in BOOLEAN : Update(b)
    \/ \E b, l \in BOOLEAN : StyleData(b, l)
    \/ \E v \in BOOLEAN : SetRepaint(v)
    \/ \E p \in {0, 1} : SetStyle(p, TRUE, TRUE, "throws")
    \/ Remove
    \/ ContextLost
    \/ ContextRestored
    \/ \E f \in Factors \ {FactorOne} : StyleStep(f)
    \/ PlacementReturn(TRUE)
    \/ Resched(TRUE)

\* The render tick with nothing in transition.
QuietTick ==
    \/ \E h \in platformFrames : FrameFire(h)
    \/ Return
    \/ StyleStep(FactorOne)
    \/ SourcesStep
    \/ PlacementStep
    \/ PlacementReturn(FALSE)
    \/ PaintStep
    \/ RenderEvtStep
    \/ LoadStep
    \/ Resched(FALSE)

QuietNext ==
    \/ ~quiet /\ Busy
    \/ GoQuiet
    \/ QuietTick

QuietSpec == Init /\ [][QuietNext]_vars /\ WF_vars(QuietTick)


\* ============================================================ debug flags
DebugFlags == {"showTileBoundaries", "showCollisionBoxes",
               "showOverdrawInspector"}

\* The field behind a flag.
FieldOf(flag) ==
    IF flag = "showTileBoundaries" THEN _showTileBoundaries
    ELSE IF flag = "showCollisionBoxes" THEN _showCollisionBoxes
    ELSE _showOverdrawInspector

\* get flag(): !!this._flag
GetFlag(flag) == FieldOf(flag) = "true"

\* The setter's test: this._flag === value.
SameAsStored(stored, value) == stored = Bool(value)

\* What the setter does after storing a new value: showCollisionBoxes = true
\* asks the style to generate the boxes, every other assignment calls
\* _update().
AfterStore(flag, value) ==
    IF flag = "showCollisionBoxes" /\ value THEN "generate" ELSE "update"

\* map.flag = value
SetFlag(flag, value) ==
    LET same == SameAsStored(FieldOf(flag), value)
        todo == AfterStore(flag, value)
        new(f, cur) == IF f = flag /\ ~same THEN Bool(value) ELSE cur
    IN  /\ _showTileBoundaries' = new("showTileBoundaries", _showTileBoundaries)
        /\ _showCollisionBoxes' = new("showCollisionBoxes", _showCollisionBoxes)
        /\ _showOverdrawInspector' =
               new("showOverdrawInspector", _showOverdrawInspector)
        /\ dbgLast' = <<flag, value, ~same /\ todo = "generate" /\ style = 0>>
        /\ IF ~same /\ todo = "update"
           THEN CamUpdate(FALSE)
           ELSE CanCall /\ UNCHANGED schedVars
        /\ UNCHANGED notDbgVars

DebugNext ==
    \/ \E flag \in DebugFlags, value \in BOOLEAN : SetFlag(flag, value)
    \/ \E p \in {0, 1} : SetStyle(p, TRUE, TRUE, "throws")
    \/ \E h \in platformFrames : FrameFire(h)
    \/ Return
    \/ StyleStep(FactorOne)
    \/ SourcesStep
    \/ PlacementStep
    \/ PlacementReturn(FALSE)
    \/ PaintStep
    \/ RenderEvtStep
    \/ LoadStep
    \/ \E t \in BOOLEAN : Resched(t)

DebugSpec == Init /\ [][DebugNext]_vars


\* ================================================ double-click zoom handler
\* DoubleClickZoomHandler (canvas_source.js 251-342). setTimeout and
\* clearTimeout are the platform's; Map.on / Map.off of zoomend are Evented's
\* and zoomTo is the camera's: a zoom that ends fires zoomend, during the call
\* (sync) or after it.
MaxTimers == 3          \* timers set in a run
MaxZoomendSubs == 2     \* copies of _onZoomEnd among the zoomend listeners
TapWindow == 300        \* line 314, the delay of the timer in milliseconds

PointCounts == {1, 2}

\* Lines 274-276 and 283-285
isEnabled == _enabled = "true"
isActive == _active = "true"

TouchAcceptedAnyPoints(enabled, n) == enabled

\* Lines 310-311: the handler is enabled and the touch has one point.
TouchAccepted(enabled, n) == enabled /\ ~(n > 1)

\* Evented.on of a listener that may be subscribed already: the list grows by
\* one, or (a list that holds a listener once) stays.
AfterZoomendOn(n) == {n + 1} \cup (IF n > 0 THEN {n} ELSE {})

\* Lines 293-296
Enable ==
    /\ _enabled' = IF isEnabled THEN _enabled ELSE "true"
    /\ dczLast' = <<"enable", 0, FALSE>>
    /\ UNCHANGED <<_active, _tapped, timers, timerCount, zoomendSubs>>
    /\ UNCHANGED <<schedVars, notDczVars>>

\* Lines 304-307
Disable ==
    /\ _enabled' = IF ~isEnabled THEN _enabled ELSE "false"
    /\ dczLast' = <<"disable", 0, FALSE>>
    /\ UNCHANGED <<_active, _tapped, timers, timerCount, zoomendSubs>>
    /\ UNCHANGED <<schedVars, notDczVars>>

\* Lines 328-336: _zoom; with sync the zoom ends inside zoomTo, zoomend is
\* fired there and _onZoomEnd (338-341) runs for every copy subscribed.
Zoom(sync) ==
    \E n \in AfterZoomendOn(zoomendSubs) :
       /\ n <= MaxZoomendSubs
       /\ _active' = IF sync THEN "false" ELSE "true"
       /\ zoomendSubs' = IF sync THEN 0 ELSE n

\* Lines 309-320: onTouchStart with n points
OnTouchStart(n, sync) ==
    /\ IF ~TouchAccepted(isEnabled, n)
       THEN /\ UNCHANGED <<_active, _tapped, timers, timerCount, zoomendSubs>>
            /\ dczLast' = <<"touchstart", n, FALSE>>
       ELSE IF _tapped = 0
       THEN /\ timerCount < MaxTimers
            /\ timerCount' = timerCount + 1
            /\ timers' = timers \cup {timerCount + 1}
            /\ _tapped' = timerCount + 1
            /\ dczLast' = <<"touchstart", n, FALSE>>
            /\ UNCHANGED <<_active, zoomendSubs>>
       ELSE /\ timers' = timers \ {_tapped}
            /\ _tapped' = 0
            /\ Zoom(sync)
            /\ dczLast' = <<"touchstart", n, TRUE>>
            /\ UNCHANGED timerCount
    /\ UNCHANGED _enabled
    /\ UNCHANGED <<schedVars, notDczVars>>

\* Lines 322-326: onDblClick
OnDblClick(sync) ==
    /\ IF ~isEnabled
       THEN /\ UNCHANGED <<_active, zoomendSubs>>
            /\ dczLast' = <<"dblclick", 0, FALSE>>
       ELSE /\ Zoom(sync)
            /\ dczLast' = <<"dblclick", 0, TRUE>>
    /\ UNCHANGED <<_enabled, _tapped, timers, timerCount>>
    /\ UNCHANGED <<schedVars, notDczVars>>

\* Line 314: the timer of a tap window runs, TapWindow after it was set.
TimerFire(id) ==
    /\ id \in timers
    /\ timers' = timers \ {id}
    /\ _tapped' = 0
    /\ dczLast' = <<"timer", id, FALSE>>
    /\ UNCHANGED <<_enabled, _active, timerCount, zoomendSubs>>
    /\ UNCHANGED <<schedVars, notDczVars>>

\* The map fires zoomend (a zoom of the handler or any other has ended);
\* lines 338-341 run for every copy of _onZoomEnd subscribed.
ZoomEnd ==
    /\ _active' = IF zoomendSubs > 0 THEN "false" ELSE _active
    /\ zoomendSubs' = 0
    /\ dczLast' = <<"zoomend", 0, FALSE>>
    /\ UNCHANGED <<_enabled, _tapped, timers, timerCount>>
    /\ UNCHANGED <<schedVars, notDczVars>>

DczNext ==
    \/ Enable
    \/ Disable
    \/ \E n \in PointCounts, sync \in BOOLEAN : OnTouchStart(n, sync)
    \/ \E sync \in BOOLEAN : OnDblClick(sync)
    \/ \E id \in timers : TimerFire(id)
    \/ ZoomEnd

DczSpec == Init /\ [][DczNext]_vars


\* ============================================================ canvas source
\* CanvasSource (canvas_source.js 61-236). The canvas element is the
\* platform's; _finishLoading is ImageSource's.
CanvasSizes == {Fin(-1), Fin(0), Fin(2), NaN}

\* Lines 230-235
HasInvalidDimensions(size) ==
    \E i \in 1..2 : IsNaN(size[i]) \/ Le(size[i], 0)

\* Line 227: the value hasTransition returns, as a condition.
HasTransition == _playing = "true"

\* Lines 74-97: a new source for a canvas of size w x h.
CanvasNew(w, h, a) ==
    /\ canvasSize' = <<w, h>>
    /\ animate' = a
    /\ canvas' = FALSE
    /\ hasPlay' = FALSE
    /\ _playing' = "undefined"
    /\ finished' = FALSE
    /\ csLast' = <<"new", FALSE, FALSE>>
    /\ CamRaised
    /\ UNCHANGED notCsVars

\* Lines 127-130: play, once load has defined it; calling it before is an
\* error raised.
CanvasPlay ==
    /\ IF hasPlay
       THEN /\ _playing' = "true"
            /\ RerenderCall
            /\ csLast' = <<"play", FALSE, FALSE>>
       ELSE /\ CamRaised
            /\ csLast' = <<"play", TRUE, FALSE>>
            /\ UNCHANGED _playing
    /\ UNCHANGED <<canvasSize, animate, canvas, hasPlay, finished>>
    /\ UNCHANGED notCsVars

\* Lines 132-134: pause
CanvasPause ==
    /\ _playing' = IF hasPlay THEN "false" ELSE _playing
    /\ csLast' = <<"pause", ~hasPlay, FALSE>>
    /\ CamRaised
    /\ UNCHANGED <<canvasSize, animate, canvas, hasPlay, finished>>
    /\ UNCHANGED notCsVars

\* Lines 148-154 with load, 113-137: onAdd
OnAdd ==
    LET invalid == HasInvalidDimensions(canvasSize)
        defined == hasPlay \/ ~invalid
        plays == animate
    IN  /\ canvas' = TRUE
        /\ hasPlay' = defined
        /\ finished' = (finished \/ ~invalid)
        /\ csLast' = <<"onAdd", plays /\ ~defined, invalid>>
        /\ IF plays /\ defined
           THEN _playing' = "true" /\ RerenderCall
           ELSE CamRaised /\ UNCHANGED _playing
        /\ UNCHANGED <<canvasSize, animate>>
        /\ UNCHANGED notCsVars

\* Lines 156-158: onRemove
OnRemove ==
    /\ _playing' = IF hasPlay THEN "false" ELSE _playing
    /\ csLast' = <<"onRemove", ~hasPlay, FALSE>>
    /\ CamRaised
    /\ UNCHANGED <<canvasSize, animate, canvas, hasPlay, finished>>
    /\ UNCHANGED notCsVars

CanvasNext ==
    \/ \E w, h \in CanvasSizes, a \in BOOLEAN : CanvasNew(w, h, a)
    \/ CanvasPlay
    \/ CanvasPause
    \/ OnAdd
    \/ OnRemove
    \/ \E p \in {0, 1} : SetStyle(p, TRUE, TRUE, "throws")
    \/ \E h \in platformFrames : FrameFire(h)
    \/ Return
    \/ StyleStep(FactorOne)
    \/ SourcesStep
    \/ PlacementStep
    \/ PlacementReturn(FALSE)
    \/ PaintStep
    \/ RenderEvtStep
    \/ LoadStep
    \/ \E t \in BOOLEAN : Resched(t)

CanvasSpec == Init /\ [][CanvasNext]_vars


\* ================================================= layer-scoped listeners
\* Map.on(type, layer, listener) and Map.off(type, layer, listener), lines
\* 666-770, over Evented's on / off / fire.
MaxRegs == 2        \* delegated listener records alive at once

Layers == {"a", "b"}
EnterTypes == {"mouseenter", "mouseover"}
LeaveTypes == {"mouseleave", "mouseout"}
\* The registrations made here: one type that enters, one that leaves (and
\* is also the name of a raw event), one that is dispatched as it comes, and
\* for the last one a second layer and a second listener.
Triples == {<<"mouseenter", "a", "f">>, <<"mouseout", "a", "f">>,
            <<"click", "a", "f">>, <<"click", "b", "f">>,
            <<"click", "a", "g">>}
RawTypes == {"mousemove", "mouseout", "click"}
\* What is registered without a layer here, and the listeners that may raise.
GlobalTypes == {"click"}
GlobalListeners == {"g"}
Throwers == {"f"}

\* Keys of the record's delegates object, in insertion order (lines 686,
\* 704, 715).
DelegateEvents(t) ==
    IF t \in EnterTypes \cup LeaveTypes THEN <<"mousemove", "mouseout">>
    ELSE <<t>>

\* A subscription made for a record holds a closure of that record's on()
\* call: rid is the place of the record in regs (0: the subscription is a
\* listener registered without a layer).
DerivedSubs(i, t) ==
    [k \in DOMAIN DelegateEvents(t) |->
        [ev |-> DelegateEvents(t)[k], rid |-> i, fn |-> "-"]]

GlobalSub(t, f) == [ev |-> t, rid |-> 0, fn |-> f]

\* The subscriptions of record i are dropped, and those of the records
\* behind it follow their records one place down.
SubsAfterOff(ss, i) ==
    LET kept == SelectSeq(ss, LAMBDA s : s.rid # i)
    IN  [k \in DOMAIN kept |->
            IF kept[k].rid > i THEN [kept[k] EXCEPT !.rid = @ - 1]
            ELSE kept[k]]

\* Evented.off(type, fn): the subscription is dropped.
SubsWithout(ss, s) == SelectSeq(ss, LAMBDA x : x # s)

\* on(type, layer, listener), lines 671-727
On3(t, l, f) ==
    /\ Len(regs) < MaxRegs
    /\ regs' = Append(regs, [type |-> t, layer |-> l, listener |-> f,
                             mousein |-> FALSE])
    /\ subs' = subs \o DerivedSubs(Len(regs) + 1, t)
    /\ evOp' = "on3"
    /\ lastReg' = <<t, l, f>>
    /\ lastEv' = <<>>
    /\ calls' = <<>>
    /\ delivered' = {}
    /\ evFeatures' = "none"
    /\ evThrew' = FALSE
    /\ UNCHANGED notEvVars

OffMatchesAnyLayer(r, t, l, f) == r.type = t /\ r.listener = f

\* Lines 755-759: the record is looked for in the list of its type, by layer
\* and listener.
OffMatches(r, t, l, f) == r.type = t /\ r.layer = l /\ r.listener = f

LastMatch(rs, t, l, f) ==
    IF \E i \in DOMAIN rs : OffMatches(rs[i], t, l, f)
    THEN CHOOSE i \in DOMAIN rs :
            /\ OffMatches(rs[i], t, l, f)
            /\ \A j \in (i + 1)..Len(rs) : ~OffMatches(rs[j], t, l, f)
    ELSE 0

\* Lines 757-765: the index of the first record that matches, 0 if none.
FirstMatch(rs, t, l, f) ==
    IF \E i \in DOMAIN rs : OffMatches(rs[i], t, l, f)
    THEN CHOOSE i \in DOMAIN rs :
            /\ OffMatches(rs[i], t, l, f)
            /\ \A j \in 1..(i - 1) : ~OffMatches(rs[j], t, l, f)
    ELSE 0

SeqWithout(q, i) == SubSeq(q, 1, i - 1) \o SubSeq(q, i + 1, Len(q))

\* off(type, layer, listener), lines 750-770
Off3(t, l, f) ==
    /\ LET i == FirstMatch(regs, t, l, f)
       IN  IF i = 0
           THEN UNCHANGED <<regs, subs>>
           ELSE /\ regs' = SeqWithout(regs, i)
                /\ subs' = SubsAfterOff(subs, i)
    /\ evOp' = "off3"
    /\ lastReg' = <<t, l, f>>
    /\ lastEv' = <<>>
    /\ calls' = <<>>
    /\ delivered' = {}
    /\ evFeatures' = "none"
    /\ evThrew' = FALSE
    /\ UNCHANGED notEvVars

\* on(type, listener), lines 667-669: Evented.on.  The same listener is not
\* subscribed twice to a type here.
On2(t, f) ==
    /\ \A i \in DOMAIN subs : subs[i] # GlobalSub(t, f)
    /\ subs' = Append(subs, GlobalSub(t, f))
    /\ evOp' = "on2"
    /\ lastReg' = <<t, "-", f>>
    /\ lastEv' = <<>>
    /\ calls' = <<>>
    /\ delivered' = {}
    /\ evFeatures' = "none"
    /\ evThrew' = FALSE
    /\ UNCHANGED <<regs, notEvVars>>

\* off(type, listener), lines 751-753: Evented.off
Off2(t, f) ==
    /\ subs' = SubsWithout(subs, GlobalSub(t, f))
    /\ evOp' = "off2"
    /\ lastReg' = <<t, "-", f>>
    /\ lastEv' = <<>>
    /\ calls' = <<>>
    /\ delivered' = {}
    /\ evFeatures' = "none"
    /\ evThrew' = FALSE
    /\ UNCHANGED <<regs, notEvVars>>

\* ----------------------------------------------------- the delegates
EnterFiresOnEveryHit(hit, inside) == hit

\* Lines 676-680: the enter listener is called on a hit while outside.
EnterFires(hit, inside) == hit /\ ~inside

\* Lines 691-695: the leave listener is called on a miss while inside.
LeaveFiresOnMove(hit, inside) == ~hit /\ inside

LeaveFiresOnOutAlways(inside) == TRUE

\* Lines 698-702: and on a raw mouseout while inside.
LeaveFiresOnOut(inside) == inside

DelegateFiresAlways(hit) == TRUE

\* Line 708: the generic delegate calls the listener on a hit.
DelegateFires(hit) == hit

\* Lines 710-712: e.features after the listener's call; the delete is not
\* reached when the listener raises.
FeaturesAfterCall(l, raised) == IF raised THEN l ELSE "none"

SetInside(rs, i, v) == [rs EXCEPT ![i].mousein = v]

\* listener.call(this, event): fn is called with an event of the given type
\* that carries the features of layer feat ("none": no features property);
\* the listeners in T raise.
Call(D, rid, fn, type, feat, T) ==
    [D EXCEPT !.calls = Append(@, [rid |-> rid, fn |-> fn, type |-> type,
                                   feat |-> feat]),
              !.threw = fn \in T]

\* One subscription s receives the raw event ev.  q is the set of layers
\* whose hit-test at the event's point is not empty; noStyle: the map has no
\* style, and getLayer (line 1241) raises.
Deliver(D, s, ev, noStyle, q, T) ==
    LET D1 == [D EXCEPT !.delivered = @ \cup {s}]
    IN  IF s.rid = 0
        THEN Call(D1, 0, s.fn, ev, D1.feat, T)
        ELSE
          LET i == s.rid
              r == D.regs[i]
              hit == r.layer \in q
              In(v) == [D1 EXCEPT !.regs = SetInside(D.regs, i, v)]
          IN  IF ev = "mouseout" /\ r.type \in EnterTypes
              THEN In(FALSE)
              ELSE IF ev = "mouseout" /\ r.type \in LeaveTypes
              THEN IF LeaveFiresOnOut(r.mousein)
                   THEN Call(In(FALSE), i, r.listener, r.type, "none", T)
                   ELSE D1
              ELSE IF noStyle
              THEN [D1 EXCEPT !.threw = TRUE]
              ELSE IF r.type \in EnterTypes
              THEN IF EnterFires(hit, r.mousein)
                   THEN Call(In(TRUE), i, r.listener, r.type, r.layer, T)
                   ELSE In(hit)
              ELSE IF r.type \in LeaveTypes
              THEN IF LeaveFiresOnMove(hit, r.mousein)
                   THEN Call(In(FALSE), i, r.listener, r.type, "none", T)
                   ELSE In(hit)
              ELSE IF DelegateFires(hit)
              THEN LET D2 == Call(D1, i, r.listener, r.type, r.layer, T)
                   IN  [D2 EXCEPT !.feat = FeaturesAfterCall(r.layer, D2.threw)]
              ELSE D1

\* Evented.fire: the subscriptions of the type are called in order; an error
\* raised by one of them ends the dispatch.
RECURSIVE Dispatch(_, _, _, _, _, _)
Dispatch(D, ss, ev, noStyle, q, T) ==
    IF ss = <<>> \/ D.threw THEN D
    ELSE Dispatch(Deliver(D, Head(ss), ev, noStyle, q, T), Tail(ss),
                  ev, noStyle, q, T)

\* A raw event of type ev reaches the map (bind_handlers fires it).
FireRaw(ev, noStyle, q, T) ==
    /\ noStyle => q = {}
    /\ \E D \in {Dispatch([regs |-> regs, calls |-> <<>>, feat |-> "none",
                          threw |-> FALSE, delivered |-> {}],
                         SelectSeq(subs, LAMBDA s : s.ev = ev),
                         ev, noStyle, q, T)} :
           /\ regs' = D.regs
           /\ calls' = D.calls
           /\ delivered' = D.delivered
           /\ evFeatures' = D.feat
           /\ evThrew' = D.threw
    /\ evOp' = "fire"
    /\ lastEv' = <<ev, noStyle, q>>
    /\ lastReg' = <<>>
    /\ UNCHANGED <<subs, notEvVars>>

EvNext ==
    \/ \E x \in Triples : On3(x[1], x[2], x[3])
    \/ \E x \in Triples : Off3(x[1], x[2], x[3])
    \/ \E t \in GlobalTypes, f \in GlobalListeners : On2(t, f)
    \/ \E t \in GlobalTypes, f \in GlobalListeners : Off2(t, f)
    \/ \E ev \in RawTypes, noStyle \in BOOLEAN, q \in SUBSET Layers,
          T \in SUBSET Throwers : FireRaw(ev, noStyle, q, T)

EvSpec == Init /\ [][EvNext]_vars


\* =========================================================== Style objects
\* Style is a collaborator of the map; what is kept of a Style object is the
\* payload it holds, how it was loaded, whether the map is its event parent
\* and whether it was released.
MaxSetStyle == 3      \* setStyle calls made
Contents == {1, 2}
PayloadKinds == {"null", "empty", "url", "object"}

\* !style: null and the empty string.
Absent(kind) == kind \in {"null", "empty"}

OptsAllowIgnoresFont(hasOpts, diffFalse, font) == ~hasOpts \/ ~diffFalse

\* (!options || (options.diff !== false && !options.localIdeographFontFamily))
OptsAllow(hasOpts, diffFalse, font) == ~hasOpts \/ (~diffFalse /\ ~font)

StyleAfterSetStyleKeepsOld(cur, patched, kind, fresh) ==
    IF patched \/ cur # 0 THEN cur ELSE IF Absent(kind) THEN 0 ELSE fresh

\* this.style when setStyle returns: the patched object, nothing for a null
\* payload, the freshly constructed Style otherwise.
StyleAfterSetStyle(cur, patched, kind, fresh) ==
    IF patched THEN cur ELSE IF Absent(kind) THEN 0 ELSE fresh

\* The try/catch around the patch: the error ends in warnOnce.
SetStyleReturns(tryDiff, outcome) == "this"

\* The calls setStyle makes, in order.
SetStyleCallsMade(cur, tryDiff, kind, outcome) ==
    LET patch == IF ~tryDiff THEN <<>>
                 ELSE IF outcome = "changed" THEN <<"setState", "_update">>
                 ELSE IF outcome = "throws" THEN <<"setState", "warnOnce">>
                 ELSE <<"setState">>
        teardown == IF cur # 0 THEN <<"setEventedParent(null)", "_remove">>
                    ELSE <<>>
        install == IF Absent(kind) THEN <<"delete style">>
                   ELSE <<"new Style", "setEventedParent(this)",
                          IF kind = "url" THEN "loadURL" ELSE "loadJSON">>
    IN  IF tryDiff /\ outcome # "throws" THEN patch
        ELSE patch \o teardown \o install

\* The Style objects after setStyle: a patch that changed something leaves
\* its payload in the current object; otherwise the current object is
\* detached and released and, for a payload, a new one is constructed.
StylesAfterSetStyle(ss, cur, patched, kind, c, outcome) ==
    LET torn == IF cur # 0
                THEN [ss EXCEPT ![cur].parent = FALSE, ![cur].removed = TRUE]
                ELSE ss
    IN  IF patched
        THEN IF outcome = "changed" THEN [ss EXCEPT ![cur].content = c] ELSE ss
        ELSE IF Absent(kind) THEN torn
        ELSE Append(torn, [content |-> c,
                           load |-> IF kind = "url" THEN "loadURL" ELSE "loadJSON",
                           parent |-> TRUE, removed |-> FALSE])

\* setStyle(style, options) with the Style objects it handles.  kind is what
\* the payload is, c its content; hasOpts, diffFalse and font describe the
\* options; outcome is what style.setState does if it is called.
SetStyleObj(kind, c, hasOpts, diffFalse, font, outcome) ==
    LET p == IF Absent(kind) THEN 0 ELSE 1
        isObject == kind # "url"
        allow == OptsAllow(hasOpts, diffFalse, font)
        tryDiff == ShouldTryDiff(style, p, isObject, allow)
        patched == tryDiff /\ outcome # "throws"
    IN  /\ setStyleCalls < MaxSetStyle
        /\ ~hasOpts => (~diffFalse /\ ~font)
        /\ Absent(kind) => c = 1
        /\ SetStyleSched(p, isObject, allow, outcome)
        /\ styles' = StylesAfterSetStyle(styles, styleObj, patched, kind, c, outcome)
        /\ styleObj' = StyleAfterSetStyle(styleObj, patched, kind, Len(styles) + 1)
        /\ setStyleCalls' = setStyleCalls + 1
        /\ ssArgs' = [kind |-> kind, content |-> c,
                      diffFalse |-> diffFalse, font |-> font,
                      outcome |-> outcome, found |-> styleObj]
        /\ ssCalls' = SetStyleCallsMade(styleObj, tryDiff, kind, outcome)
        /\ ssReturn' = SetStyleReturns(tryDiff, outcome)
        /\ qBy' = {}
        /\ UNCHANGED notStyleVars

\* Who answers queryRenderedFeatures: the map itself (0, an empty list)
\* without a style, the installed Style otherwise.
StyleAnswering(obj) == IF obj = 0 THEN 0 ELSE obj

QueryRendered ==
    /\ CanCall
    /\ qBy' = qBy \cup {StyleAnswering(styleObj)}
    /\ UNCHANGED <<styles, styleObj, setStyleCalls, ssArgs, ssCalls, ssReturn>>
    /\ UNCHANGED <<schedVars, notStyleVars>>

StyleNext ==
    \/ \E kind \in PayloadKinds, c \in Contents,
          hasOpts, diffFalse, font \in BOOLEAN, outcome \in SetStateOutcomes :
          SetStyleObj(kind, c, hasOpts, diffFalse, font, outcome)
    \/ QueryRendered
    \/ \E h \in platformFrames : FrameFire(h)
    \/ Return
    \/ StyleStep(FactorOne)
    \/ SourcesStep
    \/ PlacementStep
    \/ \E d \in BOOLEAN : PlacementReturn(d)
    \/ PaintStep
    \/ RenderEvtStep
    \/ LoadStep
    \/ \E t \in BOOLEAN : Resched(t)

StyleSpec == Init /\ [][StyleNext]_vars


\* The map with payloads of every kind and no options, with _update.
NoStyleNext ==
    \/ \E kind \in PayloadKinds, outcome \in SetStateOutcomes :
          SetStyleObj(kind, 1, FALSE, FALSE, FALSE, outcome)
    \/ QueryRendered
    \/ \E b \in BOOLEAN : Update(b)
    \/ \E b, l \in BOOLEAN : StyleData(b, l)
    \/ \E h \in platformFrames : FrameFire(h)
    \/ Return
    \/ StyleStep(FactorOne)
    \/ SourcesStep
    \/ PlacementStep
    \/ \E d \in BOOLEAN : PlacementReturn(d)
    \/ PaintStep
    \/ RenderEvtStep
    \/ LoadStep
    \/ \E t \in BOOLEAN : Resched(t)

NoStyleSpec == Init /\ [][NoStyleNext]_vars


\* ================================================================= claims
Dirty == _styleDirty \/ _sourcesDirty \/ _placementDirty
FrameLive == _frame # 0 /\ platformFrames = {_frame}

\* C1 (as stated): N >= 1 calls of _update in a row, made outside a tick with
\* a style present and beginning with no frame scheduled, ask the platform for
\* exactly one frame; when it fires nothing else is pending, and at the start
\* of that tick sourcesDirty is true and styleDirty is true iff one of the
\* calls passed updateStyle = true.
C1_CoalescingAsStated ==
    /\ (op = "update" /\ burstCalls >= 1) => (burstFrames = 1 /\ FrameLive)
    /\ (op = "frame" /\ burstCalls >= 1) =>
          /\ burstFrames = 1
          /\ _frame = 0 /\ platformFrames = {}
          /\ _sourcesDirty
          /\ _styleDirty <=> burstStyle

\* C1 (amended): the same, but styleDirty at the start of the tick is true iff
\* it was already true before the first call or one of the calls passed
\* updateStyle = true.
C1_Coalescing ==
    /\ (op = "update" /\ burstCalls >= 1) => (burstFrames = 1 /\ FrameLive)
    /\ (op = "frame" /\ burstCalls >= 1) =>
          /\ burstFrames = 1
          /\ _frame = 0 /\ platformFrames = {}
          /\ _sourcesDirty
          /\ _styleDirty <=> (burstStyle0 \/ burstStyle)

\* C1 witness: a tick starts after two or more calls, one with updateStyle.
C1_Witness ==
    op = "frame" /\ burstCalls >= 2 /\ burstStyle /\ ~burstStyle0 /\ _styleDirty

\* C2: at most one platform frame callback is pending, and _frame is non-null
\* exactly when a requested frame has neither fired nor been cancelled.
C2_AtMostOneFrame ==
    /\ Cardinality(platformFrames) <= 1
    /\ _frame # 0 <=> platformFrames # {}
    /\ _frame # 0 => platformFrames = {_frame}

\* C2 witness: a frame asked for by a 'render' listener is pending while the
\* tick is still running.
C2_Witness ==
    pc = "renderEvt" /\ inCall /\ FrameLive /\ reSrc


\* C3 (as stated): outside a tick and not torn down, a dirty flag implies a
\* live frame handle.
C3_DirtyImpliesFrameAsStated ==
    (pc = "idle" /\ ~removed /\ Dirty) => _frame # 0

DirtyNoFrame == pc = "idle" /\ Dirty /\ _frame = 0

\* C3 (amended): after every operation that calls _update with a style
\* present, and at the end of every tick with a style present, a set dirty
\* flag implies a live frame handle; a state outside a tick with a style, a
\* dirty flag and no frame is entered only by context-lost, or by an operation
\* that raises no flag from a state that already had a dirty flag and no frame.
C3_DirtyImpliesFrame ==
    /\ [](   (/\ pc = "idle" /\ style # 0 /\ Dirty
              /\ op \in {"update", "mutation", "contextRestored", "resched"})
          => FrameLive)
    /\ [][(DirtyNoFrame' /\ style' # 0) =>
              \/ op' = "contextLost"
              \/ op' = "call" /\ DirtyNoFrame]_vars

\* C3 witness: a tick ended with only placement dirty and asked for a frame.
C3_Witness ==
    /\ op = "resched" /\ style # 0
    /\ _placementDirty /\ ~_sourcesDirty /\ ~_styleDirty
    /\ FrameLive

\* C4: a flag raised by an _update made inside a tick and not reconciled by a
\* later step of that tick is still set when the tick ends, with exactly one
\* frame scheduled.
C4_NoDroppedUpdates ==
    /\ []((reSrc => _sourcesDirty /\ FrameLive) /\ (reStyle => _styleDirty /\ FrameLive))
    /\ [][(pc = "loadEvt" /\ pc' = "idle") =>
              /\ reSrc => _sourcesDirty' /\ FrameLive'
              /\ reStyle => _styleDirty' /\ FrameLive'
              /\ Cardinality(platformFrames') <= 1]_vars

\* C4 witness: the tick is about to end with both flags raised from inside it
\* after their steps had run.
C4_Witness ==
    pc = "loadEvt" /\ ~inCall /\ reSrc /\ reStyle /\ style # 0

\* An operation that called _update with a style present has just returned.
Requested == op \in {"update", "mutation"} /\ style # 0

\* C5 (as stated): without context loss or teardown and with the platform
\* firing every frame, every _update made with a style present is followed by
\* a tick that runs style._updateSources, and by one that runs style.update if
\* it passed updateStyle = true.
C5_EventualInclusionAsStated ==
    /\ Requested ~> ~_sourcesDirty
    /\ (Requested /\ owedStyle) ~> ~owedStyle

\* C5 (amended): the same, unless the style is removed (setStyle(null))
\* before that tick.
C5_EventualInclusion ==
    /\ Requested ~> (~_sourcesDirty \/ style = 0)
    /\ (Requested /\ owedStyle) ~> (~owedStyle \/ style = 0)

\* C5 witness: style.update is running in a tick after an _update(true).
C5_Witness ==
    pc = "style" /\ inCall /\ ~owedStyle /\ _sourcesDirty /\ style # 0

\* C6: load fires at most once, in the first tick whose check after the draw
\* finds loaded() true, and never again.
C6_LoadOnce ==
    /\ [](loadCount <= 1 /\ (_loaded <=> loadCount = 1))
    /\ [][/\ loadCount' # loadCount =>
                pc = "renderEvt" /\ pc' = "loadEvt" /\ Loaded /\ loadCount = 0
          /\ (pc = "renderEvt" /\ pc' = "loadEvt" /\ Loaded) => loadCount' = 1]_vars

\* C6 witness: a later tick's check finds loaded() true and fires nothing.
C6_Witness ==
    /\ pc = "loadEvt" /\ ~inCall /\ Loaded
    /\ _loaded /\ loadCount = 1 /\ "load" \notin {tickLog[i] : i \in DOMAIN tickLog}

Rank(c) == CASE c = "run" -> 1
             [] c = "style.update" -> 2
             [] c = "style._updateSources" -> 3
             [] c = "style._updatePlacement" -> 4
             [] c = "painter.render" -> 5
             [] c = "render" -> 6
             [] c = "load" -> 7

PcRank(p) == CASE p = "idle" -> 0
               [] p = "tasks" -> 1
               [] p = "style" -> 2
               [] p = "sources" -> 3
               [] p = "placement" -> 4
               [] p = "paint" -> 5
               [] p = "renderEvt" -> 6
               [] p = "loadEvt" -> 7

Logged(c) == \E i \in DOMAIN tickLog : tickLog[i] = c

C8_EndOfTickAsStated ==
    op = "resched" => (_frame # 0 <=> (Dirty \/ _repaint))

\* C8 (amended): when a tick ends with a style present and a dirty flag or
\* repaint set, a frame is scheduled; otherwise the end-of-tick check asks for
\* none (a frame is then live only if a call made inside the tick asked for it).
C8_EndOfTick ==
    [][(pc = "loadEvt" /\ pc' = "idle") =>
          IF style # 0 /\ (Dirty' \/ _repaint')
          THEN FrameLive'
          ELSE UNCHANGED <<_frame, platformFrames>>]_vars

\* C8 witness: a tick ended with repaint on and nothing dirty, and a frame is
\* scheduled.
C8_Witness ==
    op = "resched" /\ style # 0 /\ _repaint /\ ~Dirty /\ FrameLive

\* C9: context-lost cancels the pending frame, leaves no handle and no
\* callback with the platform, changes nothing else of the scheduler (nothing
\* at all when no frame was pending) and emits webglcontextlost.
C9_ContextLost ==
    [][op' = "contextLost" =>
          /\ _frame' = 0 /\ platformFrames' = {}
          /\ emitted' = <<"webglcontextlost">>
          /\ UNCHANGED <<style, _styleDirty, _sourcesDirty, _placementDirty,
                         _repaint, _loaded, queueVars, tickVars>>
          /\ _frame = 0 => UNCHANGED <<mapVars, queueVars, tickVars, platformFrames>>]_vars

\* C9 witness: context-lost cancelled a frame that a dirty flag had asked for.
C9_Witness ==
    op = "contextLost" /\ _sourcesDirty /\ style # 0 /\ _frame = 0

\* C10 (as stated): after context-restored, sourcesDirty is true and a frame
\* is scheduled.
C10_ContextRestoredAsStated ==
    op = "contextRestored" => (_sourcesDirty /\ FrameLive)

\* C10 (amended): after context-restored with a style present, sourcesDirty is
\* true and a frame is scheduled; without a style the handler changes no
\* scheduler state.  In both cases webglcontextrestored is emitted.
C10_ContextRestored ==
    [][op' = "contextRestored" =>
          /\ IF style # 0
             THEN _sourcesDirty' /\ FrameLive'
             ELSE UNCHANGED <<mapVars, queueVars, tickVars, platformFrames>>
          /\ emitted'[Len(emitted')] = "webglcontextrestored"]_vars

\* C10 witness: context-restored asked for a frame after context-lost had
\* cancelled the only one and left the flags set.
C10_Witness ==
    op = "contextRestored" /\ _sourcesDirty /\ _styleDirty /\ FrameLive

\* C11: remove() leaves no frame handle, no callback with the platform, no
\* style, and an empty task queue without having run any of its tasks; from
\* then on no frame callback fires, no tick starts and no frame task runs.
C11_Teardown ==
    /\ [](removed => /\ _frame = 0 /\ platformFrames = {}
                      /\ style = 0 /\ running = <<>>)
    /\ [][(removed' /\ ~removed) =>
              /\ queue' = <<>> /\ running' = <<>>
              /\ pc' = pc /\ tickLog' = tickLog
              /\ emitted' = <<"remove">>]_vars
    /\ [][removed =>
              /\ op' # "frame"
              /\ pc = "idle" => pc' = "idle"
              /\ running' = <<>>
              /\ Len(queue') >= Len(queue) => \A i \in DOMAIN queue : queue'[i] = queue[i]]_vars

\* C11 witness: remove() has just returned on a map that had asked for an
\* update and had been given a frame task.
C11_Witness ==
    /\ removed /\ op = "call" /\ emitted = <<"remove">>
    /\ pc = "idle" /\ _sourcesDirty /\ taskId > 0 /\ queue = <<>>

C13_FlagsClearedInTickAsStated ==
    /\ [][(_styleDirty /\ ~_styleDirty') =>
              /\ pc = "tasks" /\ pc' = "style"
              /\ tickLog' = Append(tickLog, "style.update")]_vars
    /\ [][(_sourcesDirty /\ ~_sourcesDirty') =>
              /\ pc = "style" /\ pc' = "sources"
              /\ tickLog' = Append(tickLog, "style._updateSources")]_vars
    /\ [][/\ (pc = "tasks" /\ pc' = "style" /\ _styleDirty) =>
                ~_styleDirty' /\ Logged("style.update")'
          /\ (pc = "style" /\ pc' = "sources" /\ _sourcesDirty) =>
                ~_sourcesDirty' /\ Logged("style._updateSources")']_vars

\* C13 (amended): the same, but the tick makes the call (and clears the flag)
\* only with a style present; without one the flag stays set.
C13_FlagsClearedInTick ==
    /\ [][(_styleDirty /\ ~_styleDirty') =>
              /\ pc = "tasks" /\ pc' = "style"
              /\ tickLog' = Append(tickLog, "style.update")]_vars
    /\ [][(_sourcesDirty /\ ~_sourcesDirty') =>
              /\ pc = "style" /\ pc' = "sources"
              /\ tickLog' = Append(tickLog, "style._updateSources")]_vars
    /\ [][/\ (pc = "tasks" /\ pc' = "style" /\ _styleDirty) =>
                IF style # 0
                THEN ~_styleDirty' /\ Logged("style.update")'
                ELSE _styleDirty' /\ ~Logged("style.update")'
          /\ (pc = "style" /\ pc' = "sources" /\ _sourcesDirty) =>
                IF style # 0
                THEN ~_sourcesDirty' /\ Logged("style._updateSources")'
                ELSE _sourcesDirty' /\ ~Logged("style._updateSources")']_vars

\* C13 witness: flags that survived a lost and restored context are being
\* reconciled: style.update has run and style._updateSources is running.
C13_Witness ==
    /\ pc = "sources" /\ inCall /\ ~_sourcesDirty /\ ~_styleDirty
    /\ tickLog = <<"run", "style.update", "style._updateSources">>

\* ------------------------------------------- claims: layer-scoped listeners
\* The raw event last fired, whether the map had no style then, and the
\* layers whose hit-test at its point was not empty.
FiredEv == lastEv[1]
FiredNoStyle == lastEv[2]
FiredHits == lastEv[3]

\* Calls the last fire made to the listener of record i.
CallsOf(i) == Cardinality({k \in DOMAIN calls : calls[k].rid = i})

\* The delegate of record i for raw event ev was called by the last fire.
Got(i, ev) == [ev |-> ev, rid |-> i, fn |-> "-"] \in delivered

\* The same, of the fire that the step makes.
GotNext(i, ev) == [ev |-> ev, rid |-> i, fn |-> "-"] \in delivered'

\* C14: an enter-type registration's listener is called exactly by a
\* mousemove that hits the layer while its inside flag is false (once, with
\* the matched features); a mousemove that hits sets the flag, a mousemove
\* that misses and a raw mouseout clear it, and neither these nor a mousemove
\* while the flag is set call the listener.
C14_EnterSynthesis ==
    [][evOp' = "fire" =>
          \A i \in DOMAIN regs : regs[i].type \in EnterTypes =>
             LET r == regs[i]
                 hit == /\ FiredEv' = "mousemove" /\ ~FiredNoStyle'
                        /\ r.layer \in FiredHits'
             IN  /\ (FiredEv' \in {"mousemove", "mouseout"} /\ ~evThrew')
                        => GotNext(i, FiredEv')
                 /\ ~GotNext(i, FiredEv') => (CallsOf(i)' = 0 /\ regs'[i] = r)
                 /\ GotNext(i, FiredEv') =>
                      /\ CallsOf(i)' = IF hit /\ ~r.mousein THEN 1 ELSE 0
                      /\ \A k \in DOMAIN calls' : calls'[k].rid = i =>
                            /\ calls'[k].fn = r.listener
                            /\ calls'[k].type = r.type
                            /\ calls'[k].feat = r.layer
                      /\ regs'[i].mousein =
                            IF FiredEv' = "mousemove" /\ FiredNoStyle'
                            THEN r.mousein ELSE hit]_vars

\* C14 witness: a mousemove hit the layer of an enter registration that was
\* already inside, and its listener was not called again.
C14_Witness ==
    /\ evOp = "fire" /\ FiredEv = "mousemove" /\ "a" \in FiredHits
    /\ \E i \in DOMAIN regs :
          /\ regs[i].type = "mouseenter" /\ regs[i].mousein
          /\ Got(i, "mousemove") /\ CallsOf(i) = 0

\* C15: a leave-type registration's listener is called exactly by a mousemove
\* that misses the layer, or a raw mouseout, while its inside flag is true
\* (once, and the flag is cleared); so after a call no mouseout and no miss
\* calls it again until a mousemove has hit.
C15_LeaveSynthesis ==
    [][evOp' = "fire" =>
          \A i \in DOMAIN regs : regs[i].type \in LeaveTypes =>
             LET r == regs[i]
                 hit == /\ FiredEv' = "mousemove" /\ ~FiredNoStyle'
                        /\ r.layer \in FiredHits'
                 exit == \/ /\ FiredEv' = "mousemove" /\ ~FiredNoStyle'
                            /\ r.layer \notin FiredHits'
                         \/ FiredEv' = "mouseout"
             IN  /\ (FiredEv' \in {"mousemove", "mouseout"} /\ ~evThrew')
                        => GotNext(i, FiredEv')
                 /\ ~GotNext(i, FiredEv') => (CallsOf(i)' = 0 /\ regs'[i] = r)
                 /\ GotNext(i, FiredEv') =>
                      /\ CallsOf(i)' = IF exit /\ r.mousein THEN 1 ELSE 0
                      /\ \A k \in DOMAIN calls' : calls'[k].rid = i =>
                            /\ calls'[k].fn = r.listener
                            /\ calls'[k].type = r.type
                      /\ CallsOf(i)' = 1 => ~regs'[i].mousein
                      /\ regs'[i].mousein =
                            IF FiredEv' = "mousemove" /\ FiredNoStyle'
                            THEN r.mousein ELSE hit]_vars

\* C15 witness: a raw mouseout called the listener of a leave registration.
C15_Witness ==
    /\ evOp = "fire" /\ FiredEv = "mouseout"
    /\ \E i \in DOMAIN regs :
          /\ regs[i].type \in LeaveTypes /\ ~regs[i].mousein
          /\ Got(i, "mouseout") /\ CallsOf(i) = 1

\* C16: the listener of a registration of another type is called by a raw
\* event of that type exactly when the layer's hit-test is not empty; a
\* listener registered without a layer is called by every raw event of its
\* type (that the dispatch delivers to it), and by no other.
C16_DelegatedDispatch ==
    [][evOp' = "fire" =>
          /\ \A i \in DOMAIN regs :
                regs[i].type \notin (EnterTypes \cup LeaveTypes) =>
                   LET r == regs[i]
                   IN  /\ (FiredEv' = r.type /\ ~evThrew') => GotNext(i, r.type)
                       /\ GotNext(i, r.type) => FiredEv' = r.type
                       /\ CallsOf(i)' =
                             IF /\ GotNext(i, r.type) /\ ~FiredNoStyle'
                                /\ r.layer \in FiredHits'
                             THEN 1 ELSE 0
          /\ \A j \in DOMAIN subs : subs[j].rid = 0 =>
                LET n == Cardinality({k \in DOMAIN calls' :
                             /\ calls'[k].rid = 0
                             /\ calls'[k].fn = subs[j].fn
                             /\ calls'[k].type = subs[j].ev})
                IN  /\ (FiredEv' = subs[j].ev /\ ~evThrew')
                           => subs[j] \in delivered'
                    /\ subs[j] \in delivered' => FiredEv' = subs[j].ev
                    /\ n = IF subs[j] \in delivered' THEN 1 ELSE 0]_vars

\* C16 witness: a click that hit only layer b called the listener registered
\* without a layer and not the one registered for layer a.
C16_Witness ==
    /\ evOp = "fire" /\ FiredEv = "click" /\ FiredHits = {"b"}
    /\ \E i \in DOMAIN regs :
          /\ regs[i].type = "click" /\ regs[i].layer = "a"
          /\ Got(i, "click") /\ CallsOf(i) = 0
    /\ \E k \in DOMAIN calls : calls[k].rid = 0

\* C17 (as stated): during a delegated listener's call the event carries the
\* hit-test result, and once the dispatch has ended it carries no features,
\* whether the listener returned or raised; no listener registered without a
\* layer sees features.
C17_TransientFeatures ==
    [][evOp' = "fire" =>
          /\ evFeatures' = "none"
          /\ \A k \in DOMAIN calls' :
                IF calls'[k].rid = 0
                THEN calls'[k].feat = "none"
                ELSE regs[calls'[k].rid].type \notin (EnterTypes \cup LeaveTypes)
                        => calls'[k].feat = regs[calls'[k].rid].layer]_vars

\* What the subscriptions to raw event ev are, told by the record each one
\* belongs to (or by its listener, for one registered without a layer):
\* closures of equal records behave alike.
SubView(ss, rs, ev) ==
    LET of == SelectSeq(ss, LAMBDA x : x.ev = ev)
    IN  [k \in DOMAIN of |->
            IF of[k].rid = 0 THEN <<"global", of[k].fn>>
            ELSE <<"record", rs[of[k].rid]>>]

IsTriple(r, x) == r.type = x[1] /\ r.layer = x[2] /\ r.listener = x[3]

\* Records 1..n of rs, and the subscriptions of the records 1..n.
Upto(rs, n) == SubSeq(rs, 1, n)
SubsUpto(ss, n) == SelectSeq(ss, LAMBDA x : x.rid <= n)

\* on(type, layer, listener) adds one record, outside, and subscribes its
\* delegates (mousemove and mouseout for enter and leave types, the raw type
\* otherwise) behind the subscriptions there are.
OnAddsOne ==
    [][evOp' = "on3" =>
          /\ Len(regs') = Len(regs) + 1
          /\ Upto(regs', Len(regs)) = regs
          /\ IsTriple(regs'[Len(regs')], lastReg')
          /\ ~regs'[Len(regs')].mousein
          /\ SubsUpto(subs', Len(regs)) = subs
          /\ [k \in 1..(Len(subs') - Len(subs)) |-> subs'[Len(subs) + k].ev]
                = (IF lastReg'[1] \in EnterTypes \cup LeaveTypes
                   THEN <<"mousemove", "mouseout">> ELSE <<lastReg'[1]>>)]_vars

\* off(type, layer, listener) changes nothing when no record has the triple;
\* otherwise it removes the first record that has it, with exactly that
\* record's subscriptions, and leaves every other record and subscription,
\* and their order, as they were.
OffRemovesFirst ==
    [][evOp' = "off3" =>
          LET M == {i \in DOMAIN regs : IsTriple(regs[i], lastReg')}
          IN  IF M = {}
              THEN UNCHANGED <<regs, subs>>
              ELSE LET i == CHOOSE m \in M : \A n \in M : m <= n
                   IN  /\ Len(regs') = Len(regs) - 1
                       /\ \A j \in DOMAIN regs' :
                             regs'[j] = IF j < i THEN regs[j] ELSE regs[j + 1]
                       /\ \A ev \in RawTypes :
                             SubView(subs', regs', ev) =
                                SubView(SelectSeq(subs, LAMBDA x : x.rid # i),
                                        regs, ev)
                       /\ Len(subs) - Len(subs') =
                             (IF lastReg'[1] \in EnterTypes \cup LeaveTypes
                              THEN 2 ELSE 1)]_vars

\* A listener is called only through a record that is registered.
OnlyRegisteredCalled ==
    [][evOp' = "fire" =>
          \A k \in DOMAIN calls' :
             calls'[k].rid # 0 =>
                /\ calls'[k].rid \in DOMAIN regs
                /\ calls'[k].fn = regs[calls'[k].rid].listener
                /\ calls'[k].type = regs[calls'[k].rid].type]_vars

\* The records and subscriptions are what they were before the last on().
RestoredAfterOnOff ==
    /\ regs' = Upto(regs, Len(regs) - 1)
    /\ \A ev \in RawTypes :
          SubView(subs', regs', ev) =
             SubView(SubsUpto(subs, Len(regs) - 1), regs, ev)

\* C18 (as stated): off removes the matching registration with exactly its
\* subscriptions and nothing else, is a no-op without a match, and on
\* followed by the matching off restores the records and subscriptions.
C18_OffExactAsStated ==
    /\ OnAddsOne
    /\ OffRemovesFirst
    /\ OnlyRegisteredCalled
    /\ [][(evOp = "on3" /\ evOp' = "off3" /\ lastReg' = lastReg)
             => RestoredAfterOnOff]_vars

\* C18 (amended): the same, but off removes the first registration of the
\* triple; on followed by the matching off restores the records and
\* subscriptions when no older registration of the same triple exists.
C18_OffExact ==
    /\ OnAddsOne
    /\ OffRemovesFirst
    /\ OnlyRegisteredCalled
    /\ [][(/\ evOp = "on3" /\ evOp' = "off3" /\ lastReg' = lastReg
           /\ \A i \in 1..(Len(regs) - 1) : ~IsTriple(regs[i], lastReg))
             => RestoredAfterOnOff]_vars

\* C18 witness: off has removed one of two registrations of the same triple;
\* the other one is still registered.
C18_Witness ==
    /\ evOp = "off3" /\ lastReg = <<"mouseenter", "a", "f">>
    /\ Len(regs) = 1 /\ IsTriple(regs[1], lastReg)
    /\ Len(subs) >= 2

\* A step that is a call of setStyle.
SetStyleStep == setStyleCalls' = setStyleCalls + 1

\* The last setStyle tried the patch.
TriedPatch(cs) == cs # <<>> /\ cs[1] = "setState"

Made(cs, c) == \E k \in DOMAIN cs : cs[k] = c

\* C19: setStyle calls style.setState iff there is a current style,
\* options.diff is not false, no localIdeographFontFamily is requested and
\* the payload is a parsed object; when the patch succeeds (setState returns
\* true), the style is marked dirty and an update is requested, and whenever
\* the patch does not raise, setStyle returns with the same Style object
\* installed, not torn down, and no Style constructed.
C19_DiffGate ==
    [][SetStyleStep =>
          /\ TriedPatch(ssCalls') <=>
                (/\ styleObj # 0
                 /\ ~ssArgs'.diffFalse
                 /\ ~ssArgs'.font
                 /\ ssArgs'.kind = "object")
          /\ (TriedPatch(ssCalls') /\ ssArgs'.outcome = "changed") =>
                (/\ _styleDirty' /\ _sourcesDirty' /\ _frame' # 0
                 /\ Made(ssCalls', "_update"))
          /\ (TriedPatch(ssCalls') /\ ssArgs'.outcome # "throws") =>
                (/\ styleObj' = styleObj
                 /\ Len(styles') = Len(styles)
                 /\ styles'[styleObj'].parent
                 /\ ~styles'[styleObj'].removed
                 /\ ~Made(ssCalls', "new Style")
                 /\ ~Made(ssCalls', "_remove")
                 /\ ~Made(ssCalls', "setEventedParent(null)")
                 /\ ssReturn' = "this")]_vars

\* C19 witness: a tick has cleaned the style, and a setStyle with an object
\* and options that ask for nothing special has patched it in place.
C19_Witness ==
    /\ op = "mutation"
    /\ ssCalls = <<"setState", "_update">>
    /\ ssArgs.found = 1
    /\ styleObj = 1 /\ Len(styles) = 1
    /\ styles[1].content = 2
    /\ _styleDirty /\ _frame # 0
    /\ tickLog # <<>>

\* C20: when the patch raises, setStyle returns normally; the old Style is
\* detached and released, a new Style holding the payload is constructed,
\* attached, loaded and installed, and every query made until the next
\* setStyle is answered by the new object.
C20_DiffFallback ==
    /\ [][(SetStyleStep /\ TriedPatch(ssCalls') /\ ssArgs'.outcome = "throws") =>
             /\ ssReturn' = "this"
             /\ ssCalls' = <<"setState", "warnOnce", "setEventedParent(null)",
                             "_remove", "new Style", "setEventedParent(this)",
                             "loadJSON">>
             /\ ~styles'[styleObj].parent
             /\ styles'[styleObj].removed
             /\ Len(styles') = Len(styles) + 1
             /\ styleObj' = Len(styles')
             /\ styleObj' # styleObj
             /\ styles'[styleObj'] = [content |-> ssArgs'.content,
                                      load |-> "loadJSON",
                                      parent |-> TRUE, removed |-> FALSE]]_vars
    /\ []((TriedPatch(ssCalls) /\ ssArgs.outcome = "throws") =>
             /\ qBy \subseteq {styleObj}
             /\ ssArgs.found \notin qBy
             /\ styleObj # ssArgs.found)

\* C20 witness: the patch of Style 1 raised, Style 2 was installed and has
\* answered a query.
C20_Witness ==
    /\ TriedPatch(ssCalls) /\ ssArgs.outcome = "throws"
    /\ ssArgs.found = 1
    /\ styleObj = 2
    /\ qBy = {2}
    /\ styles[1].removed /\ ~styles[2].removed
    /\ styles[2].content # styles[1].content

\* C21: setStyle with an absent payload (null, empty string) detaches and
\* releases the current style and constructs none: the map has no style,
\* loaded() is false, queryRenderedFeatures is answered with the empty list
\* by the map itself, and _update changes no flag and schedules no frame
\* while there is no style.
C21_AbsentStyle ==
    /\ [][(SetStyleStep /\ Absent(ssArgs'.kind)) =>
             /\ style' = 0 /\ styleObj' = 0
             /\ Len(styles') = Len(styles)
             /\ ~Made(ssCalls', "new Style")
             /\ ~TriedPatch(ssCalls')
             /\ styleObj # 0 =>
                   /\ ~styles'[styleObj].parent
                   /\ styles'[styleObj].removed
                   /\ ssCalls' = <<"setEventedParent(null)", "_remove",
                                   "delete style">>
             /\ ~Loaded']_vars
    /\ [][(styleObj = 0 /\ ~SetStyleStep /\ qBy' # qBy) => qBy' = qBy \cup {0}]_vars
    /\ [][(style = 0 /\ op' = "update") =>
             UNCHANGED <<_styleDirty, _sourcesDirty, _frame, platformFrames>>]_vars
    /\ [](styleObj = 0 <=> style = 0)
    /\ [](style = 0 => ~Loaded)

\* C21 witness: a style cleaned by a tick was replaced by the empty string;
\* since then a query was answered by the map and _update was called.
C21_Witness ==
    /\ ssArgs.kind = "empty" /\ ssArgs.found = 1
    /\ ssCalls = <<"setEventedParent(null)", "_remove", "delete style">>
    /\ styleObj = 0 /\ styles[1].removed
    /\ tickLog # <<>>
    /\ qBy = {0}
    /\ op = "update"
    /\ ~_styleDirty /\ ~_sourcesDirty /\ _frame = 0 /\ platformFrames = {}

\* C22: when a method of the mutation surface returns normally with a style
\* present, _sourcesDirty is true and a frame is scheduled.
C22_SurfaceUpdates ==
    [][(op' = "surface" /\ style # 0) =>
          (/\ _sourcesDirty'
           /\ _frame' # 0 /\ _frame' \in platformFrames')]_vars

\* C22 witness: a method of the surface, called by a callee of the tick after
\* the sources were recomputed, has returned: the sources are dirty again and
\* a new frame is scheduled.
C22_Witness ==
    /\ op = "surface" /\ style # 0
    /\ _sourcesDirty /\ ~_styleDirty
    /\ FrameLive
    /\ pc # "idle" /\ Logged("style._updateSources")

\* C23: loaded() is true iff there is a style, the style reports itself
\* loaded and neither _styleDirty nor _sourcesDirty is set; after an _update
\* made with a style present loaded() is false, and it becomes true again
\* only by a step of a render tick that clears a flag.
C23_LoadedIff ==
    /\ [](Loaded <=> (/\ style # 0 /\ styleLoaded
                      /\ ~_styleDirty /\ ~_sourcesDirty))
    /\ [][(op' \in {"update", "mutation"} /\ style' # 0) => ~Loaded']_vars
    /\ [][(~Loaded /\ Loaded') =>
             (/\ pc # "idle" /\ op' = "step"
              /\ \/ _styleDirty /\ ~_styleDirty'
                 \/ _sourcesDirty /\ ~_sourcesDirty')]_vars

\* C23 witness: the tick has just cleared the last flag of a loaded style,
\* and loaded() is true again.
C23_Witness ==
    /\ Loaded /\ op = "step" /\ pc = "sources"
    /\ Logged("style.update") /\ Logged("style._updateSources")

NoDup(q) == \A i, j \in DOMAIN q : q[i] = q[j] => i = j

Kept(q, out) == SelectSeq(q, LAMBDA t : t \notin out)

\* A step that is a call of _cancelRenderFrame.
CancelStep == op' = "call" /\ tqCall'[1] = "remove"

TaskIds == 1..MaxLiveTasks

Pending(id) == id \in Range(queue) \cup Range(running)

Called(id) == id \in Range(ranNow) \cup ranAll

\* A task is called only by run(), first thing in the tick; the run of the
\* next tick takes every task that is queued; no task is called twice, and
\* one that is neither pending nor called (it was cancelled) is never called.
TaskSafety ==
    /\ [][ranNow' # ranNow /\ ranNow' # <<>> =>
             (/\ pc = "tasks" /\ pc' = "tasks" /\ tickLog' = <<"run">>
              /\ ranNow' = Append(ranNow, Head(running)))]_vars
    /\ [][(pc = "idle" /\ pc' = "tasks") => running' = queue]_vars
    /\ [](NoDup(ranNow) /\ Range(ranNow) \cap ranAll = {})
    /\ [][\A id \in 1..taskId :
             (~Pending(id) /\ ~Called(id)) => (~Pending(id)' /\ ~Called(id)')]_vars

C26_LngLatValid ==
    /\ [][geoLast'[1] = "new" /\ geoLast' # geoLast =>
             LET lng == geoLast'[2]
                 lat == geoLast'[3]
                 fails == \/ IsNaN(lng) \/ IsNaN(lat)
                          \/ Gt(lat, 90) \/ Lt(lat, -90)
             IN  /\ geoLast'[4] = ~fails
                 /\ fails => points' = points
                 /\ ~fails => points' = Append(points, [lng |-> lng, lat |-> lat])]_vars
    /\ [](\A i \in DOMAIN points :
             /\ IsFinite(points[i].lat)
             /\ points[i].lat.v >= -90 /\ points[i].lat.v <= 90
             /\ ~IsNaN(points[i].lng))

\* C26 witness: points at both poles exist, one of them with an unbounded
\* longitude.
C26_Witness ==
    /\ Len(points) = 2
    /\ points[1] = [lng |-> PosInf, lat |-> Fin(90)]
    /\ points[2] = [lng |-> Fin(-540), lat |-> Fin(-90)]


WrapStep == geoLast'[1] = "wrap" /\ geoLast' # geoLast

\* What wrap() on object i gave: a new object, the receiver and every other
\* object as they were, the same lat, a lng in [-180, 180) that differs from
\* the receiver's by a multiple of 360.
Wrapped(i) ==
    /\ geoLast'[3]
    /\ Len(points') = Len(points) + 1
    /\ \A j \in DOMAIN points : points'[j] = points[j]
    /\ LET new == points'[Len(points')]
       IN  /\ new.lat = points[i].lat
           /\ IsFinite(new.lng) /\ IsFinite(points[i].lng)
           /\ new.lng.v >= -180 /\ new.lng.v < 180
           /\ (new.lng.v - points[i].lng.v) % 360 = 0

C28_ZoomBounds ==
    /\ [](HasMap => /\ 0 <= minZoom /\ minZoom <= maxZoom
                    /\ minZoom <= zoom /\ zoom <= maxZoom)
    /\ [][/\ (camLast'[1] = "setMinZoom" /\ camLast'[2] /\ minZoom' > zoom)
               => zoom' = minZoom'
          /\ (camLast'[1] = "setMaxZoom" /\ camLast'[2] /\ maxZoom' < zoom)
               => zoom' = maxZoom']_vars


\* b holds all of a.
Within(a, b) ==
    /\ b.sw[1] <= a.sw[1] /\ a.ne[1] <= b.ne[1]
    /\ b.sw[2] <= a.sw[2] /\ a.ne[2] <= b.ne[2]

FailureReturn(m) ==
    IF m = "isSourceLoaded" THEN "undefined"
    ELSE IF m = "addImage" THEN "this" ELSE "false"

\* C30: isSourceLoaded for an id with no source, addImage with an image
\* that has no width or no height, and hasImage without an id each fire
\* exactly one error event, return (undefined, the map, false) without
\* raising, and change neither the style nor the scheduler state.
C30_ErrorEvents ==
    [][(op' \in QueryMethods /\ qret'.m = op' /\ ~qret'.good) =>
           /\ emitted' = <<"error">>
           /\ ~qret'.threw
           /\ qret'.ret = FailureReturn(op')
           /\ UNCHANGED <<mapVars, queueVars, collabVars, tickVars, styleVars>>]_vars

\* C30 witness: with a style installed and a frame scheduled, addImage with
\* an image without dimensions has fired its error event.
C30_Witness ==
    /\ op = "addImage" /\ qret.m = "addImage" /\ ~qret.good
    /\ emitted = <<"error">>
    /\ style # 0 /\ _frame # 0 /\ _styleDirty


\* C31: the query polygon of a point p is <<p>>; of a box (a, b) the ring
\* a, (b.x, a.y), b, (a.x, b.y), a of five points; of no geometry the ring
\* of (0, 0), (width, height); the world coordinates are as many, in the
\* same order, each the pointCoordinate of its screen point. Without a style
\* queryRenderedFeatures returns the empty list and builds no geometry.
C31_QueryGeometry ==
    [][qgeom' # qgeom =>
          IF style = 0
          THEN qgeom'.ret = "empty" /\ ~qgeom'.built
          ELSE /\ qgeom'.ret = "style" /\ qgeom'.built
               /\ LET q == qgeom'.viewport
                      w == qgeom'.worldCoordinate
                      a == qgeom'.a
                      b == qgeom'.b
                  IN  /\ qgeom'.kind = "point" => q = <<a>>
                      /\ qgeom'.kind = "box" =>
                            /\ q = <<a, <<b[1], a[2]>>, b, <<a[1], b[2]>>, a>>
                            /\ Len(q) = 5 /\ q[1] = q[5]
                      /\ qgeom'.kind \in {"omitted", "options"} =>
                            q = << <<0, 0>>, <<Width, 0>>, <<Width, Height>>,
                                   <<0, Height>>, <<0, 0>> >>
                      /\ Len(w) = Len(q)
                      /\ \A i \in DOMAIN q :
                            w[i] = [column |-> q[i][1] + center[1],
                                    row |-> q[i][2] + center[2],
                                    zoom |-> zoom]]_vars

\* C31 witness: with a style, after a pan, the box (1, 2), (3, 1) has been
\* made a ring of five points.
C31_Witness ==
    /\ style # 0 /\ center # <<0, 0>>
    /\ qgeom.kind = "box" /\ qgeom.a = <<1, 2>> /\ qgeom.b = <<3, 1>>
    /\ qgeom.viewport = << <<1, 2>>, <<3, 2>>, <<3, 1>>, <<1, 1>>, <<1, 2>> >>


\* The step of a tick that passes the style block of _render (lines 1602-1628).
StyleBlock == pc = "tasks" /\ pc' = "style"

\* C32 as stated: crossFading is set exactly in a tick that recomputes the
\* style with a factor other than 1.
C32_CrossFadingAsStated ==
    [][StyleBlock =>
          (crossFading' <=> /\ style # 0 /\ _styleDirty
                            /\ _crossFadingFactor' # FactorOne)]_vars

\* C32: in a tick that recomputes the style, crossFading is set exactly
\* when the factor computed in that tick is other than 1 or other than the
\* factor the map held before it (so also in the first tick whose factor is
\* back at 1); a tick that computes 1 while the map holds 1 does not set it,
\* and a tick in which _styleDirty was false never sets it.
C32_CrossFading ==
    [][StyleBlock =>
          (crossFading' <=> /\ style # 0 /\ _styleDirty
                            /\ \/ _crossFadingFactor' # FactorOne
                               \/ _crossFadingFactor' # _crossFadingFactor)]_vars

\* C32 witness: a tick has computed the factor 1 and has set crossFading.
C32_Witness ==
    pc = "style" /\ crossFading /\ _crossFadingFactor = FactorOne


\* No frame is asked for and no tick is running.
Stopped == _frame = 0 /\ platformFrames = {} /\ pc = "idle"

Clean == ~_styleDirty /\ ~_sourcesDirty /\ ~_placementDirty

\* C33 as stated: once nothing calls the map any more and nothing is in
\* transition, the scheduler comes to rest with no frame handle and all
\* three dirty flags false, and stays there.
C33_QuiescenceAsStated == <>[](quiet => Stopped /\ Clean)

\* A frame is owed or a tick is running.
Active == _frame # 0 \/ pc # "idle"

\* C33: once nothing calls the map any more and nothing is in transition,
\* the scheduler comes to rest with no frame handle and stays there; it
\* does not ask for frames for ever. If at that point a style is installed
\* and a frame is owed or a tick is running, the three dirty flags are false
\* at rest; a flag whose frame was cancelled or whose style was removed
\* before the tick stays set.
C33_Quiescence ==
    /\ <>[](quiet => Stopped)
    /\ (quiet /\ style # 0 /\ Active) ~> [](Stopped /\ Clean)

\* C33 witness: at rest after the last call, with a style, the load event
\* fired and nothing dirty.
C33_Witness ==
    quiet /\ Stopped /\ Clean /\ style # 0 /\ loadCount = 1


\* C34: assigning a debug flag the value its getter returns (false on a
\* fresh map included) raises no dirty flag and schedules no frame; assigning
\* another value stores it and requests an update.
C34_DebugFlags ==
    [][\A flag \in DebugFlags, value \in BOOLEAN :
          (dbgVars' # dbgVars /\ dbgLast'[1] = flag /\ dbgLast'[2] = value) =>
              IF GetFlag(flag) = value
              THEN UNCHANGED <<_styleDirty, _sourcesDirty, _placementDirty,
                               _frame, platformFrames>>
              ELSE /\ GetFlag(flag)' = value
                   /\ ~dbgLast'[3]
                   /\ style # 0 => _sourcesDirty' /\ _frame' # 0]_vars


\* A call of setMinZoom or setMaxZoom has just ended.
ZoomSetterStep(name) == camLast'[1] = name /\ camLast' # camLast

\* The call just made raised an error and left the zoom, its limits, the
\* dirty flags and the frame handle as they were.
RaisedAndUnchanged ==
    /\ ~camLast'[2]
    /\ UNCHANGED <<minZoom, maxZoom, zoom, _styleDirty, _sourcesDirty,
                   _placementDirty, _frame, platformFrames>>

\* C35: setMinZoom(z) with z < 0 or z > maxZoom, setMaxZoom(z) with
\* z < minZoom and construction with minZoom > maxZoom raise an error; a
\* setter that raises leaves minZoom, maxZoom, zoom, the dirty flags and the
\* frame handle as they were; null or undefined stands for the default
\* (0, 22), tested in the same way.
C35_ZoomValidation ==
    [][/\ ZoomSetterStep("setMinZoom") =>
             LET z == IF camLast'[3].k = "undef" THEN Fin(0) ELSE camLast'[3]
             IN  /\ (z.k = "num" /\ (z.v < 0 \/ z.v > maxZoom)) => ~camLast'[2]
                 /\ camLast'[2] => minZoom' = z.v
                 /\ ~camLast'[2] => RaisedAndUnchanged
       /\ ZoomSetterStep("setMaxZoom") =>
             LET z == IF camLast'[3].k = "undef" THEN Fin(22) ELSE camLast'[3]
             IN  /\ (z.k = "num" /\ z.v < minZoom) => ~camLast'[2]
                 /\ camLast'[2] => maxZoom' = z.v
                 /\ ~camLast'[2] => RaisedAndUnchanged
       /\ (camLast'[1] = "new" /\ camLast' # camLast) =>
             (camLast'[3].v > camLast'[4].v => ~camLast'[2])]_vars

\* C35 witness: setMinZoom(25) has raised an error with the maximum at 5, a
\* flag dirty and a frame pending.
C35_Witness ==
    /\ camLast = <<"setMinZoom", FALSE, Fin(25)>>
    /\ maxZoom = 5 /\ _sourcesDirty /\ _frame # 0


\* C36: every enter and leave registration has its own inside flag, false at
\* first, changed only by a mousemove or mouseout delivered to that
\* registration; registering or removing a listener changes no other
\* record's flag. A leave listener is called only when its own flag is set,
\* which only a mousemove hit delivered to it since its registration or its
\* last call sets, whatever the pointer was over when it was registered.
C36_OwnInsideFlag ==
    [][/\ Len(regs') > Len(regs) =>
             /\ SubSeq(regs', 1, Len(regs)) = regs
             /\ ~regs'[Len(regs')].mousein
       /\ Len(regs') < Len(regs) =>
             \E i \in DOMAIN regs : regs' = SeqWithout(regs, i)
       /\ (Len(regs') = Len(regs) /\ evOp' # "fire") => regs' = regs
       /\ evOp' = "fire" =>
             /\ Len(regs') = Len(regs)
             /\ \A i \in DOMAIN regs :
                   /\ regs'[i].mousein # regs[i].mousein =>
                         /\ lastEv'[1] \in {"mousemove", "mouseout"}
                         /\ \E s \in delivered' : s.rid = i
                   /\ (regs'[i].mousein /\ ~regs[i].mousein) =>
                         lastEv'[1] = "mousemove" /\ regs[i].layer \in lastEv'[3]
             /\ \A k \in DOMAIN calls' :
                   (calls'[k].rid # 0 /\ calls'[k].type \in LeaveTypes) =>
                       /\ regs[calls'[k].rid].mousein
                       /\ ~regs'[calls'[k].rid].mousein]_vars

\* C36 witness: of two mouseout registrations on one layer the first had
\* seen a hit and the second, registered with the pointer over the feature,
\* had not; the raw mouseout has called the first alone.
C36_Witness ==
    /\ evOp = "fire" /\ lastEv[1] = "mouseout"
    /\ Len(regs) = 2
    /\ regs[1].type = "mouseout" /\ regs[2].type = "mouseout"
    /\ Len(calls) = 1 /\ calls[1].rid = 1
    /\ 2 \in {s.rid : s \in delivered}


\* The records registered with the triple x, and the subscriptions of record i.
RegsOf(rs, x) == {i \in DOMAIN rs : IsTriple(rs[i], x)}
SubsOfReg(ss, i) == {k \in DOMAIN ss : ss[k].rid = i}

\* The event of the step calls the listener of record r: by its type, the
\* hit-test of its layer and its own inside flag.
Qualifies(r, ev, noStyle, q) ==
    LET hit == ~noStyle /\ r.layer \in q
    IN  IF r.type \in EnterTypes
        THEN ev = "mousemove" /\ hit /\ ~r.mousein
        ELSE IF r.type \in LeaveTypes
        THEN /\ r.mousein
             /\ \/ ev = "mousemove" /\ ~noStyle /\ r.layer \notin q
                \/ ev = "mouseout"
        ELSE ev = r.type /\ hit

\* C37: registrations of one triple are counted. on adds one record of the
\* triple, with its own subscriptions and its own inside flag; the matching
\* off removes one, the oldest, and nothing when none is left; in between the
\* number stays. An event whose dispatch runs to its end calls the listener
\* once for every record of the triple it qualifies for.
C37_DuplicatesCounted ==
    /\ [][\A x \in Triples :
            LET n == Cardinality(RegsOf(regs, x))
                m == Cardinality(RegsOf(regs', x))
            IN  /\ (evOp' = "on3" /\ lastReg' = x) =>
                      /\ m = n + 1
                      /\ regs' = Append(regs, [type |-> x[1], layer |-> x[2],
                                               listener |-> x[3],
                                               mousein |-> FALSE])
                /\ (evOp' = "off3" /\ lastReg' = x) =>
                      /\ m = IF n = 0 THEN 0 ELSE n - 1
                      /\ n > 0 =>
                           LET i == CHOOSE a \in RegsOf(regs, x) :
                                       \A b \in RegsOf(regs, x) : a <= b
                           IN  regs' = SeqWithout(regs, i)
                /\ (evOp' \in {"on3", "off3"} /\ lastReg' # x) => m = n
                /\ evOp' \in {"on2", "off2", "fire"} => m = n
                /\ (evOp' = "fire" /\ ~evThrew') =>
                      Cardinality({k \in DOMAIN calls' :
                                      calls'[k].rid \in RegsOf(regs, x)}) =
                      Cardinality({i \in RegsOf(regs, x) :
                                      Qualifies(regs[i], lastEv'[1],
                                                lastEv'[2], lastEv'[3])})]_vars
    /\ [](\A i \in DOMAIN regs :
            /\ Cardinality(SubsOfReg(subs, i)) = Len(DelegateEvents(regs[i].type))
            /\ \A e \in RawTypes :
                  (\E k \in SubsOfReg(subs, i) : subs[k].ev = e)
                     <=> (\E d \in DOMAIN DelegateEvents(regs[i].type) :
                             DelegateEvents(regs[i].type)[d] = e))

\* C37 witness: the same click triple is registered twice and a click on its
\* layer has called the listener twice.
C37_Witness ==
    /\ evOp = "fire" /\ lastEv[1] = "click"
    /\ Cardinality(RegsOf(regs, <<"click", "a", "f">>)) = 2
    /\ Len(calls) = 2
    /\ calls[1].rid = 1 /\ calls[2].rid = 2


\* C38 (as stated): whenever a render tick calls painter.render a style is
\* installed, and a tick that passes the placement step without a style
\* leaves _placementDirty false.
C38_PainterHasStyle ==
    [][/\ (pc = "placement" /\ pc' = "paint") => style # 0
       /\ (pc = "sources" /\ pc' = "placement" /\ style = 0)
             => ~_placementDirty']_vars


\* A step that is a call of onTouchStart or onDblClick, and what the handler
\* holds.
TouchStep == dczLast'[1] = "touchstart"
DblClickStep == dczLast'[1] = "dblclick"
HandlerState == <<_enabled, _active, _tapped, timers, zoomendSubs>>

\* C39: with the handler enabled a one-point touchstart calls _zoom exactly
\* when a tap window is open, that is when an earlier one-point touchstart
\* set a timer that has neither run nor been cleared; the zooming tap clears
\* the timer and _tapped; a touchstart of more points, and a touchstart or
\* dblclick while disabled, change nothing of the handler; isActive() holds
\* from a _zoom until the next zoomend, which clears it and leaves no
\* zoomend listener of the handler.
C39_DoubleTap ==
    /\ [][/\ TouchStep =>
               /\ dczLast'[3] <=> (isEnabled /\ dczLast'[2] = 1 /\ _tapped # 0)
               /\ dczLast'[3] => (_tapped' = 0 /\ timers' = timers \ {_tapped})
               /\ (isEnabled /\ dczLast'[2] = 1 /\ _tapped = 0) =>
                     (_tapped' \notin timers /\ _tapped' \in timers')
               /\ (~isEnabled \/ dczLast'[2] > 1) => UNCHANGED HandlerState
          /\ (DblClickStep /\ ~isEnabled) => UNCHANGED HandlerState
          /\ (_tapped = 0 /\ _tapped' # 0) =>
                (TouchStep /\ isEnabled /\ dczLast'[2] = 1 /\ ~dczLast'[3])
          /\ (_tapped # 0 /\ _tapped' # _tapped) =>
                /\ _tapped' = 0
                /\ \/ dczLast' = <<"timer", _tapped, FALSE>>
                   \/ TouchStep /\ dczLast'[3]
          /\ dczLast'[3] => (isActive' \/ (~isActive' /\ zoomendSubs' = 0))
          /\ (isActive /\ ~isActive') =>
                /\ zoomendSubs' = 0
                /\ dczLast'[1] = "zoomend" \/ dczLast'[3]
          /\ (isActive /\ dczLast'[1] = "zoomend") => ~isActive']_vars
    /\ [](/\ _tapped # 0 => _tapped \in timers
          /\ isActive => zoomendSubs > 0)

\* C39 witness: a third tap after a zooming double tap has opened a new tap
\* window while the zoom of the second tap is still active.
C39_Witness ==
    /\ dczLast = <<"touchstart", 1, FALSE>>
    /\ isEnabled /\ isActive
    /\ _tapped = 2 /\ timers = {2}
    /\ zoomendSubs = 1


\* C40 (as stated): onAdd of a source whose canvas has a width or height
\* that is not a number or not above zero fires an error event, does not
\* finish loading, raises no error and leaves hasTransition() false, with
\* animate true or false; for a valid canvas hasTransition() becomes true
\* only by play (or the onAdd of an animated source) and false only by pause
\* or onRemove, and each of these leaves it so.
C40_InvalidCanvas ==
    [][/\ (csLast'[1] = "onAdd" /\ HasInvalidDimensions(canvasSize)) =>
             /\ csLast'[3]
             /\ ~finished'
             /\ ~csLast'[2]
             /\ ~HasTransition'
       /\ ~HasInvalidDimensions(canvasSize) =>
             /\ (~HasTransition /\ HasTransition') =>
                   (csLast'[1] = "play" \/ (csLast'[1] = "onAdd" /\ animate))
             /\ (HasTransition /\ ~HasTransition') =>
                   csLast'[1] \in {"pause", "onRemove", "new"}
             /\ (csLast'[1] = "play" /\ ~csLast'[2]) => HasTransition'
             /\ (csLast'[1] \in {"pause", "onRemove"} /\ ~csLast'[2])
                   => ~HasTransition']_vars

=============================================================================
